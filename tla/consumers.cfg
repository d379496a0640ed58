SPECIFICATION Spec
CONSTANTS
  KeySeq <- MCKeySeq
  Configs <- MCConfigs
  Values <- MCValues
  Subs = {"narrow", "role", "every"}
  Filter <- MCFilter
  Ageing <- MCAgeing
  MaxSubs = 2
  MaxChanges = 1
  NoDef = NoDef
  NoConfig = NoConfig
  NoKey = NoKey
  NoRole = NoRole
INVARIANT TypeOK
INVARIANT OnlyAgeGoesUnseen
INVARIANT RoleSubscribersCurrent
PROPERTY FeedSpec
