-------------------------------- MODULE Prompts --------------------------------
(***************************************************************************)
(* Prompts and their versions (internal/features/prompts): people write,   *)
(* approve and deprecate versions, while chats look up the one to use.     *)
(*                                                                         *)
(* Each call of the repository is a statement or a transaction of its own. *)
(* Approving takes effect when its transaction commits, and so is one step.*)
(* Deprecating is one SQL statement and yet two steps: it looks for the    *)
(* prompt's row in the snapshot it began with, and may then wait for a     *)
(* version that is being approved.                                         *)
(*                                                                         *)
(* The rows of prompt_runs are only added to, and nothing here reads them: *)
(* they are left out.  An operator whose name starts with Slip is a        *)
(* plausible mistake in the definition below it.                           *)
(***************************************************************************)
EXTENDS Naturals

CONSTANTS
    PromptIds,
    Versions,    \* ids of versions, each drawn once
    Requests,    \* concurrent requests
    None

ASSUME ConstantsAssumption == None \notin PromptIds \cup Versions

VARIABLES
    active,    \* prompts.active_version_id, by prompt
    known,     \* the prompts there are
    versions,  \* prompt_versions
    requests,  \* what each request is doing
    raced      \* versions whose last approval overlapped a deprecation of them

vars == <<active, known, versions, requests, raced>>

NoVersion == [status |-> "none", prompt |-> None, number |-> 0]

Idle == [pc |-> "idle", prompt |-> None, version |-> None, number |-> 0,
         snapshot |-> None, barred |-> {}]

Saved(p) == {v \in Versions : versions[v].prompt = p}
Numbers(p) == {versions[v].number : v \in Saved(p)}
Deprecated == {v \in Versions : versions[v].status = "deprecated"}

Finish(r) == requests' = [requests EXCEPT ![r] = Idle]

-------------------------------------------------------------------------------
(* Writing versions. *)

\* A version of prompt p, with a new id, is about to be saved as number n.
Draw(r, p, n) == \E v \in Versions :
    /\ versions[v].status = "none"
    /\ \A q \in Requests : requests[q].version # v
    /\ requests' = [requests EXCEPT ![r] =
           [pc |-> "save_version", prompt |-> p, version |-> v, number |-> n,
            snapshot |-> None, barred |-> {}]]

\* SavePrompt is committed before its first version is saved.
CreatePrompt(r, p) ==
    /\ requests[r].pc = "idle"
    /\ p \notin known
    /\ known' = known \cup {p}
    /\ Draw(r, p, 1)
    /\ UNCHANGED <<active, versions, raced>>

\* COALESCE(MAX(version), 0)
Highest(p) ==
    {m \in {0} \cup Numbers(p) : \A n \in Numbers(p) : n <= m}

\* The number is read here and used when the version is saved.
CreateVersion(r, p) ==
    /\ requests[r].pc = "idle"
    /\ p \in known
    /\ \E m \in Highest(p) : Draw(r, p, m + 1)
    /\ UNCHANGED <<active, known, versions, raced>>

SlipNoUniqueKey(p, n) == FALSE

\* UNIQUE (prompt_id, version)
Taken(p, n) == n \in Numbers(p)

\* The second of two requests with one number gets an error.
SaveVersion(r) ==
    LET p == requests[r].prompt
        n == requests[r].number
    IN
    /\ requests[r].pc = "save_version"
    /\ versions' = IF Taken(p, n)
                   THEN versions
                   ELSE [versions EXCEPT ![requests[r].version] =
                            [status |-> "draft", prompt |-> p, number |-> n]]
    /\ Finish(r)
    /\ UNCHANGED <<active, known, raced>>

-------------------------------------------------------------------------------
(* Approving and deprecating. *)

Deprecating(v) == \E r \in Requests :
    requests[r].pc = "deprecate" /\ requests[r].version = v

\* Any version that is there, whatever its status.
ApproveVersion(v) ==
    /\ versions[v].status # "none"
    /\ versions' = [versions EXCEPT ![v].status = "approved"]
    /\ active' = [active EXCEPT ![versions[v].prompt] = v]
    /\ raced' = IF Deprecating(v) THEN raced \cup {v} ELSE raced \ {v}
    /\ requests' = [r \in Requests |-> [requests[r] EXCEPT !.barred = @ \ {v}]]
    /\ UNCHANGED known

\* The statement begins: its snapshot holds the prompt's active version.
BeginDeprecate(r, v) ==
    /\ requests[r].pc = "idle"
    /\ versions[v].status # "none"
    /\ requests' = [requests EXCEPT ![r] =
           [Idle EXCEPT !.pc = "deprecate", !.version = v,
                        !.snapshot = active[versions[v].prompt]]]
    /\ UNCHANGED <<active, known, versions, raced>>

SlipDeprecateOnly(r) ==
    LET v == requests[r].version IN
    /\ requests[r].pc = "deprecate"
    /\ versions' = [versions EXCEPT ![v].status = "deprecated"]
    /\ Finish(r)
    /\ UNCHANGED <<active, known, raced>>

\* The prompt's row is updated if it named the version in the snapshot, and still does.
FinishDeprecate(r) ==
    LET v == requests[r].version
        p == versions[v].prompt
    IN
    /\ requests[r].pc = "deprecate"
    /\ versions' = [versions EXCEPT ![v].status = "deprecated"]
    /\ active' = IF requests[r].snapshot = v /\ active[p] = v
                 THEN [active EXCEPT ![p] = None] ELSE active
    /\ Finish(r)
    /\ UNCHANGED <<known, raced>>

-------------------------------------------------------------------------------
(* Chats. *)

SlipUse(v) == TRUE

Usable(v) == versions[v].status # "deprecated"

Ask(r, v, barred) ==
    requests' = [requests EXCEPT ![r] =
        [Idle EXCEPT !.pc = "ask", !.version = v, !.barred = barred]]

\* The chat names a version, or a prompt whose active version is read with its status.
ChatWith(r) ==
    /\ requests[r].pc = "idle"
    /\ \E v \in {w \in Versions : versions[w].status # "none"} : Usable(v) /\ Ask(r, v, Deprecated)
    /\ UNCHANGED <<active, known, versions, raced>>

\* The chat names neither: the prompts are listed, and a prompt with an active version taken.
ListPrompts(r) ==
    /\ requests[r].pc = "idle"
    /\ \E p \in known :
         /\ active[p] # None
         /\ requests' = [requests EXCEPT ![r] =
                [Idle EXCEPT !.pc = "find", !.version = active[p], !.barred = Deprecated]]
    /\ UNCHANGED <<active, known, versions, raced>>

FindVersion(r) ==
    LET v == requests[r].version IN
    /\ requests[r].pc = "find"
    /\ IF Usable(v) THEN Ask(r, v, requests[r].barred) ELSE Finish(r)
    /\ UNCHANGED <<active, known, versions, raced>>

\* The answer is saved as a run; or the request fails where it is.
End(r) ==
    /\ requests[r].pc # "idle"
    /\ Finish(r)
    /\ UNCHANGED <<active, known, versions, raced>>

-------------------------------------------------------------------------------

Init ==
    /\ active = [p \in PromptIds |-> None]
    /\ known = {}
    /\ versions = [v \in Versions |-> NoVersion]
    /\ requests = [r \in Requests |-> Idle]
    /\ raced = {}

Step(r) ==
    \/ SaveVersion(r)
    \/ FinishDeprecate(r)
    \/ ChatWith(r)
    \/ ListPrompts(r)
    \/ FindVersion(r)
    \/ End(r)

Next ==
    \/ \E r \in Requests, p \in PromptIds : CreatePrompt(r, p) \/ CreateVersion(r, p)
    \/ \E r \in Requests, v \in Versions : BeginDeprecate(r, v)
    \/ \E v \in Versions : ApproveVersion(v)
    \/ \E r \in Requests : Step(r)

Spec == Init /\ [][Next]_vars

-------------------------------------------------------------------------------

Statuses == {"draft", "approved", "deprecated"}

TypeOK ==
    /\ active \in [PromptIds -> Versions \cup {None}]
    /\ known \subseteq PromptIds
    /\ versions \in [Versions ->
           {NoVersion} \cup [status : Statuses, prompt : PromptIds, number : Nat \ {0}]]
    /\ requests \in [Requests ->
           [pc : {"idle", "save_version", "deprecate", "find", "ask"},
            prompt : PromptIds \cup {None}, version : Versions \cup {None}, number : Nat,
            snapshot : Versions \cup {None}, barred : SUBSET Versions]]
    /\ raced \subseteq Versions

\* The versions of a prompt are numbered 1, 2, 3 ... with none left out and none twice,
\* although a number is read in one statement and used in another.
NumbersInOrder == \A p \in PromptIds :
    /\ \A v, w \in Saved(p) : versions[v].number = versions[w].number => v = w
    /\ \A v \in Saved(p) : versions[v].number = 1 \/ versions[v].number - 1 \in Numbers(p)

\* A deprecated version stays the active one only when it was approved while the
\* statement that deprecates it was under way.
StaleOnlyByRace == \A p \in PromptIds :
    active[p] # None => versions[active[p]].status = "approved" \/ active[p] \in raced

\* A prompt loses its active version only by the deprecation of that version.
OnlyItsDeprecationClears == [][\A p \in PromptIds :
    active[p] # None /\ active'[p] = None => active[p] \in Deprecated']_vars

\* A chat does not use a version that had been deprecated when it began and was not
\* approved since.
ChatsHonourDeprecation == \A r \in Requests :
    requests[r].pc = "ask" => requests[r].version \notin requests[r].barred

===============================================================================
