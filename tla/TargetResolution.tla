-------------------------- MODULE TargetResolution --------------------------
(***************************************************************************)
(* How AppController turns a selector into one device: the devices of the  *)
(* inventory, of the sessions and of the settings are merged into one      *)
(* record each (MergeDevices), and the selector is resolved against these  *)
(* records (Resolve, FindAutoTargetMatches).                               *)
(*                                                                         *)
(* A text is the set of the fragments it is made of, so that "contains,    *)
(* ignoring case" is inclusion and the missing text is the empty set.  The *)
(* hexadecimal digits of a device's id are a text of their own.            *)
(***************************************************************************)
EXTENDS Naturals, Sequences, FiniteSets

NoText == {}
EqualsIgnoreCase(a, b) == a = b
ContainsIgnoreCase(a, b) == b # NoText /\ b \subseteq a

(***************************************************************************)
(* MergeDevices: the inventory's record is completed by the session's and  *)
(* then by the saved one; a later text replaces an earlier one unless it   *)
(* is empty, and the session alone says whether the device is connected.   *)
(***************************************************************************)
LastGiven(texts) == LET given == SelectSeq(texts, LAMBDA t : t # NoText)
                    IN  IF given = <<>> THEN NoText ELSE given[Len(given)]

TextOf(d, source, field) == IF d \in DOMAIN source THEN source[d][field] ELSE NoText

ApplySessionStates(d, sessions) == IF d \in DOMAIN sessions THEN sessions[d].state ELSE "Idle"

MergeDevices(inventory, sessions, saved) ==
    [d \in DOMAIN inventory \cup DOMAIN sessions \cup DOMAIN saved |->
        [name  |-> LastGiven(<<TextOf(d, inventory, "name"), TextOf(d, sessions, "name"),
                               TextOf(d, saved, "name")>>),
         alias |-> TextOf(d, saved, "alias"),
         state |-> ApplySessionStates(d, sessions)]]

IsConnected(devices, d) == d \in DOMAIN devices /\ devices[d].state = "Connected"

(***************************************************************************)
(* Resolve.                                                                *)
(***************************************************************************)
Resolution(code, target, exists) == [code |-> code, target |-> target, exists |-> exists]
Unresolved(code) == Resolution(code, "none", FALSE)

\* An id that no record has is still a target, one that does not exist.
ById(d, devices) == Resolution("Success", d, d \in DOMAIN devices)

MatchOne(matches) ==
    CASE matches = {}              -> Unresolved("NotFound")
      [] Cardinality(matches) > 1  -> Unresolved("Ambiguous")
      [] OTHER -> Resolution("Success", CHOOSE d \in matches : TRUE, TRUE)

ExactElsePartial(devices, field, query) ==
    LET exact == {d \in DOMAIN devices : EqualsIgnoreCase(devices[d][field], query.text)}
    IN  IF exact # {} THEN exact
        ELSE {d \in DOMAIN devices : ContainsIgnoreCase(devices[d][field], query.text)}

\* Fewer than six digits identify no device.
ByMac(devices, query, hex) ==
    IF query.digits < 6 THEN {} ELSE {d \in DOMAIN devices : ContainsIgnoreCase(hex[d], query.hex)}

IsAliasOrName(r, t) == EqualsIgnoreCase(r.alias, t) \/ EqualsIgnoreCase(r.name, t)
IsInAliasOrName(r, t) == ContainsIgnoreCase(r.alias, t) \/ ContainsIgnoreCase(r.name, t)

\* The ranks of FindAutoTargetMatches: the first that any device has decides.
Ranks(devices, query, hex) ==
    <<{d \in DOMAIN devices : d = query.id},
      {d \in DOMAIN devices : IsAliasOrName(devices[d], query.text)},
      ByMac(devices, query, hex),
      {d \in DOMAIN devices : IsInAliasOrName(devices[d], query.text)}>>

AnyMatching(ranks) == UNION {ranks[i] : i \in DOMAIN ranks}

FirstMatching(ranks) ==
    LET given == SelectSeq(ranks, LAMBDA r : r # {})
    IN  IF given = <<>> THEN {} ELSE Head(given)

FindAutoTargetMatches(devices, query, hex) == FirstMatching(Ranks(devices, query, hex))

Resolve(selector, devices, default, last, hex) ==
    CASE selector.kind = "Id"    -> ById(selector.id, devices)
      [] selector.kind = "Default" /\ default # "none" -> ById(default, devices)
      [] selector.kind \in {"Default", "Last"} ->
             IF last = "none" THEN Unresolved("NotFound") ELSE ById(last, devices)
      [] selector.kind = "Name"  -> MatchOne(ExactElsePartial(devices, "name", selector))
      [] selector.kind = "Alias" -> MatchOne(ExactElsePartial(devices, "alias", selector))
      [] selector.kind = "Mac"   -> MatchOne(ByMac(devices, selector, hex))
      [] selector.kind = "Auto"  -> MatchOne(FindAutoTargetMatches(devices, selector, hex))

=============================================================================
