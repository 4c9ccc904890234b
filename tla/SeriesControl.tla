--------------------------- MODULE SeriesControl ---------------------------
(***************************************************************************)
(* SeriesControlGateway of core/series_control.py and one plugin that it   *)
(* controls.  The gateway keeps a copy of the overrides that the plugin    *)
(* keeps itself, each with a revision: apply() and reset() talk to the     *)
(* plugin first and follow in their own copy after it, with awaits         *)
(* between, in which other requests run.                                   *)
(*                                                                         *)
(* The plugin is external and conforms to docs/series-control-mode.md 4.3: *)
(* it refuses a revision that is not its own, does what it is asked as a   *)
(* whole or not at all, and counts a revision for it; a reset without a    *)
(* revision is never refused, and a native write counts none.  Overrides   *)
(* are the set of the fields that have one.                                *)
(***************************************************************************)
EXTENDS Naturals, Sequences

CONSTANTS
    Requests,         \* HTTP requests under way
    Fields,
    MaxRevision,      \* bound: revisions
    MaxControlFaults  \* bound: timeouts, failing saves, deaths, absences

ASSUME ControlAssumption == MaxRevision \in Nat /\ MaxControlFaults \in Nat

VARIABLES
    managed,       \* _state["mode"] = "managed"
    member,        \* the plugin's entry of _state["members"]: overrides, revision
    memberFile,    \* the same in series-control.json
    overlay,       \* the plugin: its overrides and revision
    request,       \* per request: where it is and what it asked for
    controlFaults,
    acked,         \* history: the expected revisions of the applies that succeeded
    apart          \* history: gateway and plugin were told different things

controlVars == <<managed, member, memberFile, overlay, request, controlFaults, acked, apart>>

Overrides == [fields : SUBSET Fields, rev : 0..MaxRevision]
NoRequest == [pc |-> "idle", op |-> "apply", fields |-> {}, expected |-> 0]

ControlTypeOK ==
    /\ managed \in BOOLEAN /\ apart \in BOOLEAN
    /\ {member, memberFile, overlay} \subseteq Overrides
    /\ request \in [Requests -> [pc : {"idle", "asked", "checked", "done"},
                                 op : {"apply", "reset", "freeze", "freezeKeep"},
                                 fields : SUBSET Fields, expected : 0..MaxRevision]]
    /\ controlFaults \in 0..MaxControlFaults
    /\ acked \in Seq(0..MaxRevision)

ControlInit ==
    /\ managed \in BOOLEAN
    /\ member = [fields |-> {}, rev |-> 0]
    /\ memberFile = member /\ overlay = member
    /\ request = [r \in Requests |-> NoRequest]
    /\ controlFaults = 0 /\ acked = <<>> /\ apart = FALSE

At(r, op, pc) == request[r].op = op /\ request[r].pc = pc
GoTo(r, pc) == request' = [request EXCEPT ![r].pc = pc]
Leave(r) == request' = [request EXCEPT ![r] = NoRequest]
Fault == controlFaults < MaxControlFaults /\ controlFaults' = controlFaults + 1
InFlight == {r \in Requests : request[r].pc # "idle"}

---------------------------------------------------------------------------
\* The role and the mode are looked at before the first await, and the request
\* of an apply carries the revision its page showed.
Asked(r, op, fs, expected) ==
    /\ request[r].pc = "idle" /\ managed
    /\ request' = [request EXCEPT ![r] =
                      [pc |-> "asked", op |-> op, fields |-> fs, expected |-> expected]]
    /\ apart' = (apart \/ (op \in {"freeze", "freezeKeep"} /\ InFlight # {}) \/
                    \E q \in InFlight : request[q].op \in {"freeze", "freezeKeep"})
    /\ UNCHANGED <<managed, member, memberFile, overlay, controlFaults, acked>>
AskPlugin(r) ==
    \E fs \in SUBSET Fields :
        \/ fs # {} /\ \E expected \in 0..member.rev : Asked(r, "apply", fs, expected)
        \/ Asked(r, "reset", fs, 0)
        \/ fs = {} /\ (Asked(r, "freeze", fs, 0) \/ Asked(r, "freezeKeep", fs, 0))

\* import_native reads the plugin's own values and, where they differ, applies
\* them at the revision of that moment.
ImportNative(r) == \E fs \in SUBSET Fields \ {{}} : Asked(r, "apply", fs, member.rev)

\* The instance is there, its contract fits, and the revision of the member is
\* the expected one; validate_series_control_patch is asked next.
CheckRevision(r) ==
    /\ At(r, "apply", "asked")
    /\ IF request[r].expected = member.rev THEN GoTo(r, "checked") ELSE Leave(r)
    /\ UNCHANGED <<managed, member, memberFile, overlay, controlFaults, acked, apart>>

\* The plugin, and what it is sent.
Counted == overlay.rev < MaxRevision
SentCurrent(r) == member.rev
Sent(r) == IF request[r].op = "apply" THEN request[r].expected ELSE member.rev
PluginApplies(r) ==
    /\ At(r, "apply", "checked")
    /\ IF Sent(r) = overlay.rev
       THEN /\ Counted /\ GoTo(r, "done")
            /\ overlay' = [fields |-> overlay.fields \cup request[r].fields,
                           rev |-> overlay.rev + 1]
       ELSE Leave(r) /\ UNCHANGED overlay
    /\ UNCHANGED <<managed, member, memberFile, controlFaults, acked, apart>>

\* reset(): no fields mean all of them.
Selected(r, held) == IF request[r].fields = {} THEN held ELSE request[r].fields
AnyRev(r) == TRUE
SameRev(r) == Sent(r) = overlay.rev
PluginResets(r) ==
    /\ At(r, "reset", "asked")
    /\ IF SameRev(r)
       THEN /\ Counted /\ GoTo(r, "done")
            /\ overlay' = [fields |-> overlay.fields \ Selected(r, overlay.fields),
                           rev |-> overlay.rev + 1]
       ELSE Leave(r) /\ UNCHANGED overlay
    /\ UNCHANGED <<managed, member, memberFile, controlFaults, acked, apart>>

\* A plugin that is not loaded or has no contract is passed over.
PluginAbsent(r) ==
    /\ At(r, "reset", "asked")
    /\ Fault /\ GoTo(r, "done")
    /\ apart' = TRUE
    /\ UNCHANGED <<managed, member, memberFile, overlay, acked>>

\* freeze(): the fields of the overlay are written to the plugin's own
\* configuration, then reset whatever the revision, and a failing reset is
\* ignored; without reset_overlay they stay.
PluginFreezes(r) ==
    /\ request[r].op \in {"freeze", "freezeKeep"} /\ request[r].pc = "asked"
    /\ IF overlay.fields = {} THEN Leave(r) /\ UNCHANGED <<overlay, apart, controlFaults>>
       ELSE /\ request' = [request EXCEPT ![r].pc = "done", ![r].fields = overlay.fields]
            /\ \/ /\ At(r, "freeze", "asked") /\ Counted
                  /\ overlay' = [fields |-> {}, rev |-> overlay.rev + 1]
                  /\ UNCHANGED <<apart, controlFaults>>
               \/ /\ At(r, "freeze", "asked") /\ Fault
                  /\ apart' = TRUE /\ UNCHANGED overlay
               \/ /\ At(r, "freezeKeep", "asked")
                  /\ apart' = TRUE /\ UNCHANGED <<overlay, controlFaults>>
    /\ UNCHANGED <<managed, member, memberFile, acked>>

\* The answer of the plugin arrives: the copy follows, in memory and in the
\* file.  A failing write is reported, but memory keeps what it has.
Followed(r) ==
    CASE request[r].op = "apply" -> member.fields \cup request[r].fields
      [] request[r].op = "reset" -> member.fields \ Selected(r, member.fields)
      [] request[r].op = "freeze" -> member.fields \ request[r].fields
      [] OTHER -> member.fields
Follow(r) ==
    /\ request[r].pc = "done" /\ member.rev < MaxRevision
    /\ member' = [fields |-> Followed(r), rev |-> member.rev + 1]
    /\ Leave(r)
    /\ \/ /\ memberFile' = member'
          /\ acked' = IF request[r].op = "apply" THEN Append(acked, request[r].expected)
                      ELSE acked
          /\ UNCHANGED controlFaults
       \/ Fault /\ UNCHANGED <<memberFile, acked>>
    /\ UNCHANGED <<managed, overlay, apart>>

\* _call gives up after call_timeout, before or after the plugin did it.
CallTimesOut(r) ==
    /\ request[r].op = "apply" /\ request[r].pc \in {"checked", "done"}
    /\ Fault /\ Leave(r)
    /\ apart' = (apart \/ request[r].pc = "done")
    /\ UNCHANGED <<managed, member, memberFile, overlay, acked>>

SetMode ==
    /\ managed' = ~managed
    /\ memberFile' = member
    /\ UNCHANGED <<member, overlay, request, controlFaults, acked, apart>>

\* The process dies; gateway and plugin read their files again.
ControlDies ==
    /\ Fault
    /\ apart' = (apart \/ member # memberFile \/ \E r \in InFlight : request[r].pc = "done")
    /\ member' = memberFile
    /\ request' = [r \in Requests |-> NoRequest]
    /\ UNCHANGED <<managed, memberFile, overlay, acked>>

ControlNext ==
    \/ \E r \in Requests :
          \/ AskPlugin(r) \/ ImportNative(r) \/ CheckRevision(r) \/ PluginApplies(r) \/ PluginResets(r)
          \/ PluginAbsent(r) \/ PluginFreezes(r) \/ Follow(r) \/ CallTimesOut(r)
    \/ SetMode \/ ControlDies

ControlSpec == ControlInit /\ [][ControlNext]_controlVars

---------------------------------------------------------------------------
\* When nothing is in flight and nothing that the code cannot repair happened
\* (a timeout after the plugin did it, a death between the two, an absent
\* plugin, a freeze that keeps or fails to reset the overlay, or that overlaps
\* another request), the gateway's copy is what the plugin has, and its
\* revision is the one the plugin will accept next.
InStep == InFlight = {} /\ ~apart => member = overlay

\* Two applies from the same revision never both succeed: "a revision conflict
\* does not overwrite another administrator's change"
\* (docs/series-control-mode.md:323), although the gateway compares revisions
\* two awaits before it writes (series_control.py:231).
NoLostPatch == \A i, j \in DOMAIN acked : acked[i] = acked[j] => i = j
=============================================================================
