\* Every question page, each with all the inputs its rules tell apart.
CONSTANTS
  Pages = {"personal", "contact", "demographic", "identity", "employer_contact", "employer_separation", "self_employment", "union", "education", "disability", "availability", "payment"}
  PayTypeOrder <- MCPayTypeOrder
  Typings <- MCTypings
  Occupations = 7
  WordLength <- MCWordLength
  Titles <- MCTitles
  Hits <- MCHits
  OccupationsPerPage = 2
  LastPages = {0, 1, 2, 3, 5, 7}
SPECIFICATION PagesSpec
INVARIANTS TypeOK AcceptedIsFilable RefusalIsExplained HiddenAnswersAreForgotten AnAnswerStays ReturnKeepsAnswers ProgressAgreesWithNext FiledIsReviewed OtherPayIsAsEntered OccupationIsAsPicked AcceptedDateIsShown
