---------------------------- MODULE Subscriptions ----------------------------
(***************************************************************************)
(* portal.py: subscribing to an operator of a catalog.  The Subscription is *)
(* created under the package's name; whether Operator Lifecycle Manager     *)
(* will install anything depends on the namespace's OperatorGroups and on   *)
(* the modes the chosen channel supports.                                   *)
(***************************************************************************)
EXTENDS Naturals, FiniteSets, Facts

\* The Subscription that has the package's name; one of another name is around it.
SubscribeObjects == {NULL, "subscription"}

\* operator_group_row: its targets, NULL while a selector decides them.
Groups == {"all", "own", NULL}
\* The channel's modes, UNREAD for a channel that publishes none.
SubscribeSurroundings ==
  [groups : {{}, {"all"}, {"own"}, {NULL}, Groups}, modes : {{"all"}, {"own"}, UNREAD},
   subscribed : BOOLEAN]

\* find_package fails the whole call, the other two listings only their value.  Bound:
\* a namespace holds fewer objects than a listing asks for, so none is cut off.
SubscribeReadings(around) == PartialReads(around, {"groups", "subscribed"})

SubscribeWants == [channel : {"stable", NULL}, approval : {"Automatic", "Manual"}]
\* validate_request, and the channel plan() looks for
SubscribeValid(wanted) == wanted.channel # NULL

SubscribeRefused(existing, seen, wanted) == FALSE

\* target_state: nothing is installed without exactly one group, whose mode the channel
\* supports.
TargetCodes(seen) ==
  IF seen.groups = UNREAD THEN {"operator_group_unknown"}
  ELSE IF seen.groups = {} THEN {"no_operator_group"}
  ELSE IF Cardinality(seen.groups) > 1 THEN {"too_many_operator_groups"}
  ELSE LET required == CHOOSE g \in seen.groups : TRUE
       IN IF seen.modes = UNREAD \/ required = NULL THEN {"install_modes_unknown"}
          ELSE {c \in {"install_mode_unsupported"} : required \notin seen.modes}

\* target_state, _existing_subscriptions, plan
SubscribeCodes(existing, seen, wanted) ==
  TargetCodes(seen)
    \cup (CASE seen.subscribed = UNREAD -> {"subscriptions_unknown"}
            [] seen.subscribed # UNREAD /\ (seen.subscribed \/ existing # NULL) ->
                 {"already_subscribed"}
            [] OTHER -> {})
    \cup {c \in {"manual_approval"} : wanted.approval = "Manual"}

\* build_subscription
SubscribeApplied(existing, wanted) == "subscription"

\* An operator that will never be installed, or twice.
SubscribeDangers(existing, around, wanted) ==
  {d \in {{"no_operator_group", "operator_group_unknown"}} : around.groups = {}}
    \cup {d \in {{"too_many_operator_groups", "operator_group_unknown"}} :
            Cardinality(around.groups) > 1}
    \cup {d \in {{"install_mode_unsupported", "operator_group_unknown"}} :
            \E g \in around.groups : /\ around.groups = {g} /\ g # NULL
                                     /\ around.modes # UNREAD /\ g \notin around.modes}
    \cup {d \in {{"already_subscribed", "subscriptions_unknown"}} : around.subscribed}
=============================================================================
