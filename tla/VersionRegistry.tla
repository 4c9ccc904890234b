-------------------------- MODULE VersionRegistry --------------------------
(***************************************************************************)
(* CandidateRegistry of core/adapters/registry.py: fetch_json with its     *)
(* cache, its retries and the window that a rate limit closes on a host,   *)
(* and github_latest with its own cache on top of it.  Several checks run  *)
(* at once (a page checks several plugins together) and share both.        *)
(*                                                                         *)
(* One API host, one repository.  GitHub is external: a document that      *)
(* changes, and a quota that requests use up and that is restored.  Time   *)
(* is not counted: windows, ages and cool-downs end by a step.  The raw    *)
(* document, which a check reads first and without quota, answers at once  *)
(* or not at all.                                                          *)
(***************************************************************************)
EXTENDS Naturals

CONSTANTS
    Checks,        \* checks of a version, each run any number of times
    MaxVersions,   \* bound: changes of the document
    MaxAttempts,   \* 3 in the code
    Quota,         \* requests per period of GitHub's limit
    Threshold,     \* max(5, 20 %) in the code: the rest of the quota left alone
    MaxRegFaults,  \* bound: server errors, lost requests, timeouts
    Nothing

ASSUME RegistryAssumption ==
    /\ {MaxVersions, MaxAttempts, Quota, Threshold, MaxRegFaults} \subseteq Nat
    /\ MaxAttempts > 0 /\ Threshold < Quota /\ Nothing \notin Nat

VARIABLES
    document,  \* GitHub: the version in metadata.yaml
    quota,     \* GitHub: requests left in this period
    blocked,   \* the host's window is closed (blocked_until)
    remaining, \* x-ratelimit-remaining as last seen, or Nothing
    json,      \* _cache: the document, and whether it is within its time to live
    latest,    \* _latest_cache: the candidate, its mode, its age
    check,     \* per check: where it is; `got`, while it runs what it falls back
               \* on, and then what it was given
    regFaults

github == <<document, quota>>
regVars == <<github, blocked, remaining, json, latest, check, regFaults>>

Versions == 0..MaxVersions
NoEntry == [value |-> Nothing, fresh |-> FALSE]
NoLatest == [value |-> Nothing, mode |-> "none", fresh |-> FALSE, cooling |-> FALSE]
IdleCheck == [pc |-> "idle", mode |-> "none", forced |-> FALSE, tries |-> 0, held |-> Nothing,
              reply |-> "none", body |-> Nothing, left |-> 0, got |-> NoLatest]

RegistryTypeOK ==
    /\ document \in Versions /\ quota \in 0..Quota
    /\ blocked \in BOOLEAN /\ remaining \in 0..Quota \cup {Nothing}
    /\ {json.value, latest.value} \subseteq Versions \cup {Nothing}
    /\ latest.fresh => latest.value # Nothing
    /\ \A c \in Checks :
          /\ check[c].pc \in {"idle", "ready", "sent", "answered", "sleep"}
          /\ check[c].tries \in 0..MaxAttempts
          /\ check[c].reply = "same" => check[c].held # Nothing

RegistryInit ==
    /\ document = 0 /\ quota = Quota
    /\ blocked = FALSE /\ remaining = Nothing
    /\ json = NoEntry /\ latest = NoLatest
    /\ check = [c \in Checks |-> IdleCheck]
    /\ regFaults = 0

\* A check ends with a candidate (or none) and is free for the next.
End(c, mode, cand) ==
    check' = [check EXCEPT ![c] = [IdleCheck EXCEPT !.mode = mode, !.got = cand]]
Store(c, mode, v) ==
    /\ latest' = [value |-> v, mode |-> mode, fresh |-> TRUE, cooling |-> TRUE]
    /\ End(c, mode, latest')

---------------------------------------------------------------------------
(* github_latest up to the first await: a compatible candidate is returned *)
(* within its time to live and, to a forced check, within the cool-down.   *)

AnyMode(mode) == latest.value # Nothing
Compatible(mode) == latest.value # Nothing /\ latest.mode \in {mode, "full"}
Serves(mode, forced) == Compatible(mode) /\ (latest.fresh \/ (forced /\ latest.cooling))

\* What a check may fall back on, as it is before the first await.
Cached(mode) == IF Compatible(mode) THEN latest ELSE NoLatest

FromLatest(c, mode, forced) ==
    /\ check[c].pc = "idle" /\ Serves(mode, forced)
    /\ End(c, mode, latest)
    /\ UNCHANGED <<github, blocked, remaining, json, latest, regFaults>>

\* A check that the raw document answers; a full one goes on to the API.
FromRaw(c, forced) ==
    /\ check[c].pc = "idle" /\ ~Serves("check", forced)
    /\ Store(c, "check", document)
    /\ UNCHANGED <<github, blocked, remaining, json, regFaults>>

---------------------------------------------------------------------------
(* fetch_json.                                                             *)

\* _blocked, and _rest_budget_allows: the quota as the last answer told it.
MayAsk == ~blocked /\ (remaining # Nothing => remaining > Threshold)

\* The look at the cache, the window and the budget comes before the first
\* await, and is not repeated after it.
Ask(c, mode, forced) ==
    /\ check[c].pc = "idle" /\ ~Serves(mode, forced)
    /\ (forced \/ ~json.fresh) /\ MayAsk
    /\ check' = [check EXCEPT ![c] =
           [IdleCheck EXCEPT !.pc = "ready", !.mode = mode, !.held = json.value,
                             !.got = Cached(mode)]]
    /\ UNCHANGED <<github, blocked, remaining, json, latest, regFaults>>

\* The cache serves when it is fresh and, however old, when GitHub may not be
\* asked; github_latest takes what it gets for a new candidate.
FromJson(c, mode, forced) ==
    /\ check[c].pc = "idle" /\ ~Serves(mode, forced)
    /\ (~forced /\ json.fresh) \/ ~MayAsk
    /\ json.value # Nothing
    /\ Store(c, mode, json.value)
    /\ UNCHANGED <<github, blocked, remaining, json, regFaults>>

\* A fetch that failed, or that may not begin, leaves the candidate that was
\* cached when the check began, if it is compatible, or raises.
Fail(c) ==
    /\ End(c, check[c].mode, check[c].got)
    /\ UNCHANGED latest
Turned(c, mode, forced) ==
    /\ check[c].pc = "idle" /\ ~Serves(mode, forced)
    /\ ~MayAsk /\ json.value = Nothing
    /\ End(c, mode, Cached(mode))
    /\ UNCHANGED <<github, blocked, remaining, json, latest, regFaults>>

AttemptsLeftOver(c) == check[c].tries <= MaxAttempts
AttemptsLeft(c) == check[c].tries < MaxAttempts

\* A request goes out; a retry does not look at the window again.
Send(c) ==
    /\ check[c].pc \in {"ready", "sleep"}
    /\ check' = [check EXCEPT ![c].pc = "sent", ![c].tries = @ + 1]
    /\ UNCHANGED <<github, blocked, remaining, json, latest, regFaults>>

\* GitHub answers with the document, or that it is unchanged, or that the
\* quota is used up; or with an error of the server (5xx) or of the client.
Serve(c) ==
    /\ check[c].pc = "sent"
    /\ LET left == IF quota > 0 THEN quota - 1 ELSE 0
       IN /\ quota' = left
          /\ \E reply \in {"ok", "same", "limited", "error", "refused"} :
                /\ reply = "limited" <=> quota = 0
                /\ reply = "same" => check[c].held = document
                /\ reply = "ok" => check[c].held # document
                /\ IF reply \in {"error", "refused"}
                   THEN regFaults < MaxRegFaults /\ regFaults' = regFaults + 1
                   ELSE UNCHANGED regFaults
                /\ check' = [check EXCEPT ![c].pc = "answered", ![c].reply = reply,
                                          ![c].body = document, ![c].left = left]
    /\ UNCHANGED <<document, blocked, remaining, json, latest>>

\* _remember_rate_limit: the headers tell what is left of the quota, and a
\* limit closes the window of the host.
RememberLimit(c) ==
    /\ remaining' = check[c].left
    /\ blocked' = (blocked \/ check[c].reply = "limited")

\* The answer is read, its headers first.
Receive(c) ==
    LET r == check[c].reply
        body == IF r = "ok" THEN check[c].body ELSE check[c].held
        again == r = "error" /\ AttemptsLeft(c)
    IN /\ check[c].pc = "answered"
       /\ RememberLimit(c)
       /\ IF r \in {"ok", "same"} THEN json' = [value |-> body, fresh |-> TRUE]
                                   ELSE UNCHANGED json
       /\ \/ /\ r \in {"ok", "same"} \/ (r = "limited" /\ check[c].held # Nothing)
             /\ Store(c, check[c].mode, body)
          \/ /\ again
             /\ check' = [check EXCEPT ![c].pc = "sleep", ![c].reply = "none"]
             /\ UNCHANGED latest
          \/ /\ ~again /\ r \in {"error", "refused", "limited"}
             /\ r = "limited" => check[c].held = Nothing
             /\ Fail(c)
    /\ UNCHANGED <<github, regFaults>>

\* No answer in time: the next attempt follows at once.  A broken connection
\* ends the fetch.
NoAnswer(c) ==
    /\ check[c].pc \in {"sent", "answered"}
    /\ regFaults < MaxRegFaults /\ regFaults' = regFaults + 1
    /\ \/ /\ AttemptsLeft(c)
          /\ check' = [check EXCEPT ![c].pc = "ready", ![c].reply = "none"]
          /\ UNCHANGED latest
       \/ Fail(c)
    /\ UNCHANGED <<github, blocked, remaining, json>>

---------------------------------------------------------------------------
(* Time, and GitHub.                                                       *)

WindowEnds == blocked /\ blocked' = FALSE
              /\ UNCHANGED <<github, remaining, json, latest, check, regFaults>>
QuotaRestored == quota < Quota /\ quota' = Quota
                 /\ UNCHANGED <<document, blocked, remaining, json, latest, check, regFaults>>
DocumentChanges ==
    /\ document < MaxVersions /\ document' = document + 1
    /\ UNCHANGED <<quota, blocked, remaining, json, latest, check, regFaults>>
Ages ==
    /\ \/ /\ latest.cooling /\ latest' = [latest EXCEPT !.cooling = FALSE] /\ UNCHANGED json
       \/ /\ latest.fresh /\ ~latest.cooling
          /\ latest' = [latest EXCEPT !.fresh = FALSE] /\ UNCHANGED json
       \/ json.fresh /\ json' = [json EXCEPT !.fresh = FALSE] /\ UNCHANGED latest
    /\ UNCHANGED <<github, blocked, remaining, check, regFaults>>

CheckStarts(c, mode, forced) ==
    FromLatest(c, mode, forced) \/ Ask(c, mode, forced) \/ FromJson(c, mode, forced)
    \/ Turned(c, mode, forced)
CheckGoes(c) == Send(c) \/ Serve(c) \/ Receive(c)

RegistryNext ==
    \/ \E c \in Checks, forced \in BOOLEAN :
          (\E mode \in {"check", "full"} : CheckStarts(c, mode, forced)) \/ FromRaw(c, forced)
    \/ \E c \in Checks : CheckGoes(c) \/ NoAnswer(c)
    \/ WindowEnds \/ QuotaRestored \/ DocumentChanges \/ Ages

\* Requests are answered or time out, windows end, GitHub restores the quota.
RegistryFairness ==
    /\ WF_regVars(WindowEnds) /\ WF_regVars(QuotaRestored)
    /\ \A c \in Checks : WF_regVars(CheckGoes(c))

RegistrySpec == RegistryInit /\ [][RegistryNext]_regVars /\ RegistryFairness

---------------------------------------------------------------------------
(* Properties.                                                             *)

\* A full check, which an update acts on, never gets the candidate of a quick
\* check of a page, not even out of the cache after a failure, and has none of
\* them to fall back on (registry.py:996).
FullEvidence ==
    \A c \in Checks : check[c].mode = "full" => check[c].got.mode \in {"none", "full"}

\* pages/manager/app.js:18 tells the user of a rate limit that "after {retry}
\* one can check again".
LimitEnds == blocked ~> MayAsk
=============================================================================
