SPECIFICATION Spec
CONSTANTS Nil = Nil
INVARIANTS
  TypeOK ProcessesAreContained VersionsSurvive ProvidersAreTakenAtTheirWord MentionsAreKept SignInsAreSound
  AccountsAgree MemoriesAgree TurnsAreFaithful LicenseIsAccountedFor DevicesAgree RunsReportTheirOwn
  StartsLoseNothing
PROPERTIES
  StepsKeepFaith
CHECK_DEADLOCK FALSE
