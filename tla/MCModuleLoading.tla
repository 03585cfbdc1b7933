-------------------------- MODULE MCModuleLoading --------------------------
(* A modules.alias in which one modalias (ma1) matches a deferred module   *)
(* before an ordinary one, one (ma2) matches the ordinary module and a     *)
(* blacklisted one on a line with a trailing extra token, and a            *)
(* modules.blacklist with a line too short to be kept.                     *)
EXTENDS ModuleLoading

CONSTANTS ma1, ma2, mDeferred, mNormal, mBlack

MCAliasLines ==
  << [ntokens |-> 3, pattern |-> {ma1},      name |-> mDeferred],
     [ntokens |-> 3, pattern |-> {ma1, ma2}, name |-> mNormal],
     [ntokens |-> 4, pattern |-> {ma2},      name |-> mBlack],
     [ntokens |-> 2, pattern |-> {ma2},      name |-> mDeferred] >>

MCBlacklistLines ==
  << [ntokens |-> 2, keyword |-> "deferred",  name |-> mDeferred],
     [ntokens |-> 2, keyword |-> "blacklist", name |-> mBlack],
     [ntokens |-> 1, keyword |-> "blacklist", name |-> mNormal],
     [ntokens |-> 2, keyword |-> "other",     name |-> mNormal] >>
=============================================================================
