CONSTANTS
    Script <- Dialogs
    Lines = 4
    Quarter = 2
SPECIFICATION Spec
INVARIANTS AnswersMeetQuestions LinesArriveInOrder
PROPERTY UploadEnds
CHECK_DEADLOCK FALSE
