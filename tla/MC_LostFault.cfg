SPECIFICATION Spec
CONSTANTS
    Threads = {t1, t2}
    Writers = {writer}
    Publishers = {publisher}
    NoThread = NoThread
PROPERTY
    FaultLeftOnlyByRecovery
