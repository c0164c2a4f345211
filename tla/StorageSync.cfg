CONSTANTS
  TagIds <- MCTagIds
  Qtys <- MCQtys
  DefaultTag = 1
  SeqMod = 3
  MaxLag = 2
  None = None
SPECIFICATION Spec
INVARIANTS TypeOK OutstockIsEmpty SeqCountsChanges ConfirmedTagSurvives RamTagFromNv
PROPERTIES ImplementsDurableTag
