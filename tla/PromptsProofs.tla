---------------------------- MODULE PromptsProofs -----------------------------
(***************************************************************************)
(* Proofs about Prompts, from the inductive invariant Sound.               *)
(***************************************************************************)
EXTENDS Prompts, TLAPS

\* What a request that writes a version carries: a version nobody else has, and a number
\* whose predecessor is taken for good.
Draws(r) == requests[r].pc = "save_version" =>
    /\ requests[r].prompt \in PromptIds
    /\ requests[r].version \in Versions
    /\ versions[requests[r].version] = NoVersion
    /\ requests[r].number > 0
    /\ requests[r].number = 1 \/ requests[r].number - 1 \in Numbers(requests[r].prompt)

Exclusive == \A r, q \in Requests :
    requests[r].pc = "save_version" /\ requests[q].version = requests[r].version => q = r

\* A statement that deprecates the active version has it in its snapshot, or the version
\* was approved since.
Sees(r) == requests[r].pc = "deprecate" =>
    LET v == requests[r].version IN
    /\ v \in Versions
    /\ versions[v].status # "none"
    /\ active[versions[v].prompt] = v => requests[r].snapshot = v \/ v \in raced

Reads(r) == requests[r].pc \in {"find", "ask"} =>
    /\ requests[r].version \in Versions
    /\ versions[requests[r].version].status # "none"
    /\ requests[r].barred \subseteq Deprecated

Owned == \A p \in PromptIds : active[p] # None => versions[active[p]].prompt = p

Sound ==
    /\ TypeOK
    /\ \A r \in Requests : Draws(r) /\ Sees(r) /\ Reads(r)
    /\ Exclusive
    /\ Owned
    /\ NumbersInOrder
    /\ StaleOnlyByRace
    /\ ChatsHonourDeprecation

LEMMA NoneIsNoId == None \notin PromptIds /\ None \notin Versions
    BY ConstantsAssumption DEF ConstantsAssumption

LEMMA VersionTyped ==
    ASSUME TypeOK, NEW v \in Versions, versions[v].status # "none"
    PROVE  /\ versions[v].status \in Statuses
           /\ versions[v].prompt \in PromptIds
           /\ versions[v].number \in Nat \ {0}
    BY DEF TypeOK, NoVersion

LEMMA SavedIsWritten ==
    ASSUME TypeOK, NEW p \in PromptIds, NEW v \in Saved(p)
    PROVE  v \in Versions /\ versions[v].status \in Statuses /\ versions[v].number \in Nat \ {0}
    BY NoneIsNoId DEF TypeOK, NoVersion, Saved

Request == [pc : {"idle", "save_version", "deprecate", "find", "ask"},
            prompt : PromptIds \cup {None}, version : Versions \cup {None}, number : Nat,
            snapshot : Versions \cup {None}, barred : SUBSET Versions]

LEMMA IdleTyped == Idle \in Request
    BY DEF Idle, Request

-------------------------------------------------------------------------------
(* Steps that change only what one request does. *)

LEMMA RequestStep ==
    ASSUME Sound, NEW r \in Requests, NEW n \in Request,
           requests' = [requests EXCEPT ![r] = n],
           UNCHANGED <<active, versions, raced>>, known' \subseteq PromptIds,
           Draws(r)', Sees(r)', Reads(r)',
           n.pc = "ask" => n.version \notin n.barred,
           n.pc = "save_version" => \A q \in Requests \ {r} : requests[q].version # n.version,
           \A q \in Requests \ {r} : requests[q].pc = "save_version" => requests[q].version # n.version
    PROVE  Sound'
<1>1. requests'[r] = n /\ \A q \in Requests \ {r} : requests'[q] = requests[q]
    BY DEF Sound, TypeOK
<1>2. TypeOK'
    BY DEF Sound, TypeOK, Request
<1>3. \A q \in Requests : Draws(q)'
    BY <1>1 DEF Sound, Draws, Numbers, Saved
<1>4. \A q \in Requests : Sees(q)'
    BY <1>1 DEF Sound, Sees
<1>5. \A q \in Requests : Reads(q)'
    BY <1>1 DEF Sound, Reads, Deprecated
<1>6. Exclusive'
    BY <1>1 DEF Sound, Exclusive
<1>7. Owned' /\ NumbersInOrder' /\ StaleOnlyByRace'
    BY DEF Sound, Owned, NumbersInOrder, Numbers, Saved, StaleOnlyByRace
<1>8. ChatsHonourDeprecation'
    BY <1>1 DEF Sound, ChatsHonourDeprecation
<1> QED
    BY <1>2, <1>3, <1>4, <1>5, <1>6, <1>7, <1>8 DEF Sound

LEMMA FinishSound ==
    ASSUME Sound, NEW r \in Requests, Finish(r), UNCHANGED <<active, known, versions, raced>>
    PROVE  Sound'
<1>1. requests'[r] = Idle
    BY DEF Finish, Sound, TypeOK
<1>2. Draws(r)' /\ Sees(r)' /\ Reads(r)'
    BY <1>1 DEF Draws, Sees, Reads, Idle
<1>3. /\ Idle.pc = "idle"
      /\ \A q \in Requests : requests[q].pc = "save_version" => requests[q].version # Idle.version
    BY NoneIsNoId DEF Idle, Sound, Draws
<1>4. known' \subseteq PromptIds
    BY DEF Sound, TypeOK
<1> QED
    BY <1>2, <1>3, <1>4, IdleTyped, RequestStep DEF Finish

\* A request that draws a version with a number it has computed.
LEMMA DrawSound ==
    ASSUME Sound, NEW r \in Requests, NEW p \in PromptIds, NEW k \in Nat \ {0},
           k = 1 \/ k - 1 \in Numbers(p), Draw(r, p, k),
           UNCHANGED <<active, versions, raced>>, known' \subseteq PromptIds
    PROVE  Sound'
<1>1. PICK v \in Versions :
         /\ versions[v].status = "none"
         /\ \A q \in Requests : requests[q].version # v
         /\ requests' = [requests EXCEPT ![r] =
                [pc |-> "save_version", prompt |-> p, version |-> v, number |-> k,
                 snapshot |-> None, barred |-> {}]]
    BY DEF Draw
<1> DEFINE n == [pc |-> "save_version", prompt |-> p, version |-> v, number |-> k,
                 snapshot |-> None, barred |-> {}]
<1>2. n \in Request
    BY DEF Request
<1>3. n.pc = "save_version" /\ n.prompt = p /\ n.version = v /\ n.number = k
    OBVIOUS
<1>4. requests' = [requests EXCEPT ![r] = n] /\ requests'[r] = n
    BY <1>1 DEF Sound, TypeOK
<1> HIDE DEF n
<1>5. versions[v] = NoVersion
    BY <1>1 DEF Sound, TypeOK, Statuses
<1>6. Draws(r)'
    BY <1>3, <1>4, <1>5 DEF Draws, Numbers, Saved
<1>7. Sees(r)' /\ Reads(r)'
    BY <1>3, <1>4 DEF Sees, Reads
<1> QED
    BY <1>1, <1>2, <1>3, <1>4, <1>6, <1>7, RequestStep

LEMMA CreatePromptSound ==
    ASSUME Sound, NEW r \in Requests, NEW p \in PromptIds, CreatePrompt(r, p)
    PROVE  Sound'
<1>1. known' \subseteq PromptIds
    BY DEF CreatePrompt, Sound, TypeOK
<1> QED
    BY <1>1, DrawSound DEF CreatePrompt

LEMMA CreateVersionSound ==
    ASSUME Sound, NEW r \in Requests, NEW p \in PromptIds, CreateVersion(r, p)
    PROVE  Sound'
<1>1. PICK m \in Highest(p) : Draw(r, p, m + 1)
    BY DEF CreateVersion
<1>2. m \in Nat /\ (m = 0 \/ m \in Numbers(p))
    BY SavedIsWritten DEF Highest, Numbers, Sound
<1>3. m + 1 \in Nat \ {0} /\ (m + 1 = 1 \/ (m + 1) - 1 \in Numbers(p))
    BY <1>2
<1>4. known' \subseteq PromptIds
    BY DEF CreateVersion, Sound, TypeOK
<1> QED
    BY <1>1, <1>3, <1>4, DrawSound DEF CreateVersion

\* A request that is about one version that is there.
LEMMA BeginDeprecateSound ==
    ASSUME Sound, NEW r \in Requests, NEW v \in Versions, BeginDeprecate(r, v)
    PROVE  Sound'
<1> DEFINE n == [Idle EXCEPT !.pc = "deprecate", !.version = v,
                             !.snapshot = active[versions[v].prompt]]
<1>1. versions[v].prompt \in PromptIds /\ active[versions[v].prompt] \in Versions \cup {None}
    BY VersionTyped DEF BeginDeprecate, Sound, TypeOK
<1>2. n \in Request
    BY <1>1 DEF Idle, Request
<1>3. n.pc = "deprecate" /\ n.version = v /\ n.snapshot = active[versions[v].prompt]
    BY DEF Idle
<1>4. requests' = [requests EXCEPT ![r] = n] /\ requests'[r] = n
    BY DEF BeginDeprecate, Sound, TypeOK
<1> HIDE DEF n
<1>5. versions[v].status # "none" /\ UNCHANGED <<active, known, versions, raced>>
    BY DEF BeginDeprecate
<1>6. Draws(r)' /\ Sees(r)' /\ Reads(r)'
    BY <1>3, <1>4, <1>5 DEF Draws, Sees, Reads
<1>7. \A q \in Requests : requests[q].pc = "save_version" => requests[q].version # v
    BY <1>5 DEF Sound, Draws, NoVersion
<1>8. known' \subseteq PromptIds
    BY <1>5 DEF Sound, TypeOK
<1> QED
    BY <1>2, <1>3, <1>4, <1>5, <1>6, <1>7, <1>8, RequestStep

LEMMA ChatSound ==
    ASSUME Sound, NEW r \in Requests, NEW v \in Versions, versions[v].status # "none",
           NEW barred \in SUBSET Deprecated, NEW pc \in {"find", "ask"},
           pc = "ask" => v \notin barred,
           requests' = [requests EXCEPT ![r] =
               [Idle EXCEPT !.pc = pc, !.version = v, !.barred = barred]],
           UNCHANGED <<active, known, versions, raced>>
    PROVE  Sound'
<1> DEFINE n == [Idle EXCEPT !.pc = pc, !.version = v, !.barred = barred]
<1>1. n \in Request
    BY DEF Idle, Request, Deprecated
<1>2. n.pc = pc /\ n.version = v /\ n.barred = barred
    BY DEF Idle
<1>3. requests' = [requests EXCEPT ![r] = n] /\ requests'[r] = n
    BY DEF Sound, TypeOK
<1> HIDE DEF n
<1>4. Draws(r)' /\ Sees(r)' /\ Reads(r)'
    BY <1>2, <1>3 DEF Draws, Sees, Reads, Deprecated
<1>5. \A q \in Requests : requests[q].pc = "save_version" => requests[q].version # v
    BY DEF Sound, Draws, NoVersion
<1>6. known' \subseteq PromptIds
    BY DEF Sound, TypeOK
<1> QED
    BY <1>1, <1>2, <1>3, <1>4, <1>5, <1>6, RequestStep

LEMMA ChatWithSound ==
    ASSUME Sound, NEW r \in Requests, ChatWith(r)
    PROVE  Sound'
<1>1. PICK v \in Versions : versions[v].status # "none" /\ Usable(v) /\ Ask(r, v, Deprecated)
    BY DEF ChatWith
<1>2. v \notin Deprecated
    BY <1>1 DEF Usable, Deprecated
<1> QED
    BY <1>1, <1>2, ChatSound DEF Ask, ChatWith

LEMMA ListPromptsSound ==
    ASSUME Sound, NEW r \in Requests, ListPrompts(r)
    PROVE  Sound'
<1>1. PICK p \in known :
         /\ active[p] # None
         /\ requests' = [requests EXCEPT ![r] =
                [Idle EXCEPT !.pc = "find", !.version = active[p], !.barred = Deprecated]]
    BY DEF ListPrompts
<1>2. p \in PromptIds /\ active[p] \in Versions /\ versions[active[p]].prompt = p
    BY <1>1 DEF Sound, TypeOK, Owned
<1>3. versions[active[p]].status # "none"
    BY <1>2, NoneIsNoId DEF Sound, TypeOK, NoVersion, Statuses
<1> QED
    BY <1>1, <1>2, <1>3, ChatSound DEF ListPrompts

LEMMA FindVersionSound ==
    ASSUME Sound, NEW r \in Requests, FindVersion(r)
    PROVE  Sound'
<1> DEFINE v == requests[r].version
<1>1. v \in Versions /\ versions[v].status # "none" /\ requests[r].barred \subseteq Deprecated
    BY DEF FindVersion, Sound, Reads
<1>2. UNCHANGED <<active, known, versions, raced>>
    BY DEF FindVersion
<1>3. CASE Finish(r)
    BY <1>2, <1>3, FinishSound
<1>4. CASE Usable(v) /\ Ask(r, v, requests[r].barred)
  <2>1. v \notin requests[r].barred
      BY <1>1, <1>4 DEF Usable, Deprecated
  <2> QED
      BY <1>1, <1>2, <1>4, <2>1, ChatSound DEF Ask
<1> QED
    BY <1>3, <1>4 DEF FindVersion

-------------------------------------------------------------------------------
(* Steps that change the rows. *)

LEMMA InitSound == Init => Sound
<1> SUFFICES ASSUME Init PROVE Sound
    OBVIOUS
<1>1. TypeOK
    BY IdleTyped DEF Init, TypeOK, Request, NoVersion
<1>2. \A r \in Requests : requests[r].pc = "idle"
    BY DEF Init, Idle
<1>3. \A r \in Requests : Draws(r) /\ Sees(r) /\ Reads(r)
    BY <1>2 DEF Draws, Sees, Reads
<1>4. Exclusive /\ ChatsHonourDeprecation
    BY <1>2 DEF Exclusive, ChatsHonourDeprecation
<1>5. Owned /\ StaleOnlyByRace
    BY DEF Init, Owned, StaleOnlyByRace
<1>6. \A p \in PromptIds : Saved(p) = {}
    BY NoneIsNoId DEF Init, NoVersion, Saved
<1>7. NumbersInOrder
    BY <1>6 DEF NumbersInOrder
<1> QED
    BY <1>1, <1>3, <1>4, <1>5, <1>7 DEF Sound

LEMMA SaveVersionSound ==
    ASSUME Sound, NEW r \in Requests, SaveVersion(r)
    PROVE  Sound'
<1>0. PICK p \in PromptIds, v \in Versions, n \in Nat \ {0} :
         p = requests[r].prompt /\ v = requests[r].version /\ n = requests[r].number
    BY DEF SaveVersion, Sound, TypeOK, Draws
<1>1. CASE Taken(p, n)
    BY <1>0, <1>1, FinishSound DEF SaveVersion
<1>2. CASE ~ Taken(p, n)
  <2>1. versions[v] = NoVersion /\ (n = 1 \/ n - 1 \in Numbers(p))
      BY <1>0 DEF SaveVersion, Sound, Draws
  <2>2. /\ versions'[v] = [status |-> "draft", prompt |-> p, number |-> n]
        /\ \A w \in Versions \ {v} : versions'[w] = versions[w]
      BY <1>0, <1>2, <2>1 DEF SaveVersion, Sound, TypeOK
  <2>3. requests'[r] = Idle /\ \A q \in Requests \ {r} : requests'[q] = requests[q]
      BY DEF SaveVersion, Finish, Sound, TypeOK
  <2>4. UNCHANGED <<active, known, raced>>
      BY DEF SaveVersion
  <2>5. TypeOK'
    <3>1. versions' \in [Versions ->
             {NoVersion} \cup [status : Statuses, prompt : PromptIds, number : Nat \ {0}]]
        BY <1>0, <1>2, <2>1 DEF SaveVersion, Sound, TypeOK, Statuses
    <3>2. requests' \in [Requests -> Request]
        BY IdleTyped DEF SaveVersion, Finish, Sound, TypeOK, Request
    <3> QED
        BY <2>4, <3>1, <3>2 DEF Sound, TypeOK, Request
  <2>6. Saved(p)' = Saved(p) \cup {v} /\ v \notin Saved(p)
    <3>1. versions'[v].prompt = p /\ versions[v].prompt # p
        BY <2>1, <2>2, NoneIsNoId DEF NoVersion
    <3> QED
        BY <2>1, <2>2, <3>1 DEF Saved
  <2>7. \A o \in PromptIds \ {p} : Saved(o)' = Saved(o) /\ v \notin Saved(o)
      BY <2>1, <2>2, NoneIsNoId DEF Saved, NoVersion
  <2>8. \A o \in PromptIds : \A w \in Saved(o) : w \in Versions \ {v} /\ versions'[w] = versions[w]
      BY <2>2, <2>6, <2>7 DEF Saved
  <2>9. /\ Numbers(p)' = Numbers(p) \cup {n}
        /\ \A o \in PromptIds \ {p} : Numbers(o)' = Numbers(o)
      BY <2>1, <2>2, <2>6, <2>7, <2>8 DEF Numbers
  <2>10. NumbersInOrder'
    <3> SUFFICES ASSUME NEW o \in PromptIds
                 PROVE  /\ \A w, u \in Saved(o)' : versions'[w].number = versions'[u].number => w = u
                        /\ \A w \in Saved(o)' : \/ versions'[w].number = 1
                                              \/ versions'[w].number - 1 \in Numbers(o)'
        BY DEF NumbersInOrder
    <3>1. CASE o # p
        BY <2>7, <2>8, <2>9, <3>1 DEF Sound, NumbersInOrder
    <3>2. CASE o = p
      <4>1. \A w \in Saved(p) : versions[w].number # n
          BY <1>2 DEF Taken, Numbers
      <4>2. \A w, u \in Saved(p)' : versions'[w].number = versions'[u].number => w = u
          BY <2>1, <2>2, <2>6, <2>8, <4>1 DEF Sound, NumbersInOrder
      <4>3. \A w \in Saved(p)' : versions'[w].number = 1 \/ versions'[w].number - 1 \in Numbers(p)'
          BY <2>1, <2>2, <2>6, <2>8, <2>9 DEF Sound, NumbersInOrder
      <4> QED
          BY <3>2, <4>2, <4>3
    <3> QED
        BY <3>1, <3>2
  <2>11. \A q \in Requests : Draws(q)' /\ Sees(q)' /\ Reads(q)'
    <3> SUFFICES ASSUME NEW q \in Requests
                 PROVE  Draws(q)' /\ Sees(q)' /\ Reads(q)'
        OBVIOUS
    <3>1. CASE q = r
        BY <2>3, <3>1 DEF Draws, Sees, Reads, Idle
    <3>2. CASE q # r
      <4>1. Draws(q)'
        <5>1. requests[q].pc = "save_version" => requests[q].version # v
            BY <1>0, <3>2 DEF Sound, Exclusive, SaveVersion
        <5> QED
            BY <2>2, <2>3, <2>9, <3>2, <5>1 DEF Sound, Draws
      <4>2. Sees(q)'
        <5>1. requests[q].pc = "deprecate" => requests[q].version \in Versions \ {v}
            BY <2>1 DEF Sound, Sees, NoVersion
        <5> QED
            BY <2>2, <2>3, <2>4, <3>2, <5>1 DEF Sound, Sees
      <4>3. Reads(q)'
        <5>1. v \notin Deprecated /\ Deprecated \subseteq Deprecated'
            BY <2>1, <2>2 DEF Deprecated, NoVersion
        <5>2. requests[q].pc \in {"find", "ask"} => requests[q].version \in Versions \ {v}
            BY <2>1 DEF Sound, Reads, NoVersion
        <5> QED
            BY <2>2, <2>3, <3>2, <5>1, <5>2 DEF Sound, Reads
      <4> QED
          BY <4>1, <4>2, <4>3
    <3> QED
        BY <3>1, <3>2
  <2>12. Exclusive' /\ ChatsHonourDeprecation'
    <3>1. Idle.pc = "idle" /\ Idle.version = None
        BY DEF Idle
    <3>2. \A q \in Requests : requests[q].pc = "save_version" => requests[q].version # None
        BY NoneIsNoId DEF Sound, Draws
    <3> QED
        BY <2>3, <3>1, <3>2 DEF Sound, Exclusive, ChatsHonourDeprecation
  <2>13. \A o \in PromptIds : active[o] # None => active[o] \in Versions \ {v}
      BY <2>1, NoneIsNoId DEF Sound, TypeOK, Owned, NoVersion
  <2>14. Owned' /\ StaleOnlyByRace'
      BY <2>2, <2>4, <2>13 DEF Sound, Owned, StaleOnlyByRace
  <2> QED
      BY <2>5, <2>10, <2>11, <2>12, <2>14 DEF Sound
<1> QED
    BY <1>1, <1>2

\* A version that gets another status keeps its prompt and its number.
LEMMA NewStatus ==
    ASSUME Sound, NEW v \in Versions, versions[v].status # "none", NEW s \in Statuses,
           versions' = [versions EXCEPT ![v].status = s]
    PROVE  /\ versions' \in [Versions ->
                 {NoVersion} \cup [status : Statuses, prompt : PromptIds, number : Nat \ {0}]]
           /\ versions'[v].status = s /\ versions'[v].prompt = versions[v].prompt
           /\ \A w \in Versions \ {v} : versions'[w] = versions[w]
           /\ \A p \in PromptIds : Saved(p)' = Saved(p) /\ Numbers(p)' = Numbers(p)
           /\ NumbersInOrder'
<1>1. versions[v] \in [status : Statuses, prompt : PromptIds, number : Nat \ {0}]
    BY DEF Sound, TypeOK, NoVersion
<1>2. [versions[v] EXCEPT !.status = s] \in [status : Statuses, prompt : PromptIds, number : Nat \ {0}]
    BY <1>1
<1>3. /\ versions'[v] = [versions[v] EXCEPT !.status = s]
      /\ \A w \in Versions \ {v} : versions'[w] = versions[w]
    BY DEF Sound, TypeOK
<1>4. /\ versions'[v].status = s
      /\ \A w \in Versions : /\ versions'[w].prompt = versions[w].prompt
                            /\ versions'[w].number = versions[w].number
    BY <1>1, <1>3
<1>5. versions' \in [Versions ->
          {NoVersion} \cup [status : Statuses, prompt : PromptIds, number : Nat \ {0}]]
    BY <1>2 DEF Sound, TypeOK
<1>6. \A p \in PromptIds : Saved(p)' = Saved(p) /\ Numbers(p)' = Numbers(p)
    BY <1>4 DEF Saved, Numbers
<1>7. \A p \in PromptIds : Saved(p) \subseteq Versions
    BY DEF Saved
<1>8. NumbersInOrder'
    BY <1>4, <1>6, <1>7 DEF Sound, NumbersInOrder
<1> QED
    BY <1>3, <1>4, <1>5, <1>6, <1>8

\* What a request that is about to save a version carries survives the change.
LEMMA DrawsKept ==
    ASSUME Sound, NEW v \in Versions, versions[v].status # "none", NEW s \in Statuses,
           versions' = [versions EXCEPT ![v].status = s], NEW q \in Requests,
           requests'[q].pc = requests[q].pc, requests'[q].prompt = requests[q].prompt,
           requests'[q].version = requests[q].version, requests'[q].number = requests[q].number
    PROVE  Draws(q)'
<1>1. requests[q].pc = "save_version" => requests[q].version # v
    BY DEF Sound, Draws, NoVersion
<1>2. /\ \A w \in Versions \ {v} : versions'[w] = versions[w]
      /\ \A p \in PromptIds : Numbers(p)' = Numbers(p)
    BY NewStatus
<1> SUFFICES ASSUME requests[q].pc = "save_version"
             PROVE  Draws(q)'
    BY DEF Draws
<1> PICK p \in PromptIds, w \in Versions, k \in Nat :
      /\ p = requests[q].prompt /\ w = requests[q].version /\ k = requests[q].number
      /\ versions[w] = NoVersion
      /\ k > 0
      /\ k = 1 \/ k - 1 \in Numbers(p)
    BY DEF Sound, TypeOK, Draws
<1>3. versions'[w] = NoVersion /\ (k = 1 \/ k - 1 \in Numbers(p)')
    BY <1>1, <1>2
<1> QED
    BY <1>3 DEF Draws

LEMMA ApproveVersionSound ==
    ASSUME Sound, NEW v \in Versions, ApproveVersion(v)
    PROVE  Sound'
<1>1. versions[v].status # "none" /\ versions' = [versions EXCEPT ![v].status = "approved"]
    BY DEF ApproveVersion
<1>2. "approved" \in Statuses
    BY DEF Statuses
<1> PICK p \in PromptIds : p = versions[v].prompt
    BY <1>1, VersionTyped DEF Sound
<1>3. active'[p] = v /\ \A o \in PromptIds \ {p} : active'[o] = active[o]
    BY DEF ApproveVersion, Sound, TypeOK
<1>4. raced \subseteq raced' \cup {v} /\ (Deprecating(v) => v \in raced')
    BY DEF ApproveVersion
<1>5. \A q \in Requests : requests'[q] = [requests[q] EXCEPT !.barred = @ \ {v}]
    BY DEF ApproveVersion
<1>6. \A q \in Requests : requests[q] \in Request
    BY DEF Sound, TypeOK, Request
<1>7. \A q \in Requests :
        /\ requests'[q] \in Request
        /\ requests'[q].pc = requests[q].pc
        /\ requests'[q].prompt = requests[q].prompt
        /\ requests'[q].version = requests[q].version
        /\ requests'[q].number = requests[q].number
        /\ requests'[q].snapshot = requests[q].snapshot
        /\ requests'[q].barred = requests[q].barred \ {v}
  <2> SUFFICES ASSUME NEW q \in Requests, NEW old \in Request, NEW new,
                      old = requests[q], new = requests'[q]
               PROVE  /\ new \in Request
                      /\ new.pc = old.pc /\ new.prompt = old.prompt /\ new.version = old.version
                      /\ new.number = old.number /\ new.snapshot = old.snapshot
                      /\ new.barred = old.barred \ {v}
      BY <1>6
  <2>1. new = [old EXCEPT !.barred = old.barred \ {v}]
      BY <1>5
  <2> QED
      BY <2>1 DEF Request
<1>8. TypeOK'
  <2>1. requests' \in [Requests -> Request]
      BY <1>7 DEF ApproveVersion
  <2>2. active' \in [PromptIds -> Versions \cup {None}]
      BY DEF ApproveVersion, Sound, TypeOK
  <2>3. raced' \subseteq Versions /\ known' \subseteq PromptIds
      BY DEF ApproveVersion, Sound, TypeOK
  <2> QED
      BY <1>1, <1>2, <2>1, <2>2, <2>3, NewStatus DEF TypeOK, Request
<1>9. \A q \in Requests : Draws(q)'
    BY <1>1, <1>2, <1>7, DrawsKept
<1>10. \A q \in Requests : Sees(q)'
  <2> SUFFICES ASSUME NEW q \in Requests, requests[q].pc = "deprecate"
               PROVE  Sees(q)'
      BY <1>7 DEF Sees
  <2> PICK w \in Versions : w = requests[q].version
      BY DEF Sound, Sees
  <2>1. CASE w = v
    <3>1. v \in raced'
        BY <1>4, <2>1 DEF Deprecating
    <3>2. versions'[v].status # "none"
        BY <1>1, <1>2, NewStatus
    <3> QED
        BY <1>7, <2>1, <3>1, <3>2 DEF Sees
  <2>2. CASE w # v
    <3>1. versions[w].status # "none" /\ versions[w].prompt \in PromptIds /\ versions'[w] = versions[w]
        BY <1>1, <1>2, <2>2, NewStatus, VersionTyped DEF Sound, Sees
    <3>2. active'[versions[w].prompt] = w => active[versions[w].prompt] = w
        BY <1>3, <2>2, <3>1
    <3> QED
        BY <1>4, <1>7, <2>2, <3>1, <3>2 DEF Sound, Sees
  <2> QED
      BY <2>1, <2>2
<1>11. \A q \in Requests : Reads(q)'
  <2>1. Deprecated \ {v} \subseteq Deprecated'
      BY <1>1, <1>2, NewStatus DEF Deprecated
  <2>2. \A w \in Versions : versions[w].status # "none" => versions'[w].status # "none"
      BY <1>1, <1>2, NewStatus DEF Statuses
  <2> QED
      BY <1>7, <2>1, <2>2 DEF Sound, Reads
<1>12. Exclusive' /\ ChatsHonourDeprecation'
    BY <1>7 DEF Sound, Exclusive, ChatsHonourDeprecation
<1>13. \A o \in PromptIds \ {p} : active[o] # None => active[o] \in Versions \ {v}
    BY DEF Sound, TypeOK, Owned
<1>14. Owned'
    BY <1>1, <1>2, <1>3, <1>13, NewStatus DEF Sound, Owned
<1>15. StaleOnlyByRace'
  <2>1. versions'[active'[p]].status = "approved"
      BY <1>1, <1>2, <1>3, NewStatus
  <2>2. \A o \in PromptIds \ {p} : active'[o] # None =>
          versions'[active'[o]].status = "approved" \/ active'[o] \in raced'
    <3> SUFFICES ASSUME NEW o \in PromptIds \ {p}, active[o] # None
                 PROVE  versions'[active[o]].status = "approved" \/ active[o] \in raced'
        BY <1>3
    <3>1. active[o] \in Versions \ {v} /\ versions'[active[o]] = versions[active[o]]
        BY <1>1, <1>2, <1>13, NewStatus
    <3> QED
        BY <1>4, <3>1 DEF Sound, StaleOnlyByRace
  <2> QED
      BY <2>1, <2>2 DEF StaleOnlyByRace
<1> QED
    BY <1>1, <1>2, <1>8, <1>9, <1>10, <1>11, <1>12, <1>14, <1>15, NewStatus DEF Sound

LEMMA FinishDeprecateSound ==
    ASSUME Sound, NEW r \in Requests, FinishDeprecate(r)
    PROVE  Sound'
<1>1. PICK v \in Versions :
         v = requests[r].version /\ versions[v].status # "none"
    BY DEF FinishDeprecate, Sound, Sees
<1> PICK p \in PromptIds : p = versions[v].prompt
    BY <1>1, VersionTyped DEF Sound
<1>2. /\ requests[r].pc = "deprecate"
      /\ versions' = [versions EXCEPT ![v].status = "deprecated"]
      /\ active' = IF requests[r].snapshot = v /\ active[p] = v
                   THEN [active EXCEPT ![p] = None] ELSE active
      /\ UNCHANGED <<known, raced>>
    BY <1>1 DEF FinishDeprecate
<1>3. "deprecated" \in Statuses
    BY DEF Statuses
<1>4. requests'[r] = Idle /\ \A q \in Requests \ {r} : requests'[q] = requests[q]
    BY DEF FinishDeprecate, Finish, Sound, TypeOK
<1>5. \A o \in PromptIds : active'[o] # None => active'[o] = active[o]
    BY <1>2 DEF Sound, TypeOK
<1>6. \A o \in PromptIds : active'[o] = v => v \in raced
  <2> SUFFICES ASSUME NEW o \in PromptIds, active'[o] = v, v \notin raced PROVE FALSE
      OBVIOUS
  <2>1. active[o] = v /\ o = p
      BY <1>5, NoneIsNoId DEF Sound, Owned
  <2>2. requests[r].snapshot = v
      BY <1>1, <1>2, <2>1 DEF Sound, Sees
  <2> QED
      BY <1>2, <2>1, <2>2, NoneIsNoId DEF Sound, TypeOK
<1>7. TypeOK'
  <2>1. requests' \in [Requests -> Request]
      BY IdleTyped DEF FinishDeprecate, Finish, Sound, TypeOK, Request
  <2>2. active' \in [PromptIds -> Versions \cup {None}]
      BY <1>2 DEF Sound, TypeOK
  <2> QED
      BY <1>1, <1>2, <1>3, <2>1, <2>2, NewStatus DEF Sound, TypeOK, Request
<1>8. \A q \in Requests : Draws(q)'
  <2>1. Draws(r)'
      BY <1>4 DEF Draws, Idle
  <2>2. \A q \in Requests \ {r} : Draws(q)'
      BY <1>1, <1>2, <1>3, <1>4, DrawsKept
  <2> QED
      BY <2>1, <2>2
<1>9. \A w \in Versions : versions[w].status # "none" =>
        versions'[w].status # "none" /\ versions'[w].prompt = versions[w].prompt
    BY <1>1, <1>2, <1>3, NewStatus DEF Statuses
<1>10. \A q \in Requests : Sees(q)'
  <2> SUFFICES ASSUME NEW q \in Requests, requests'[q].pc = "deprecate"
               PROVE  Sees(q)'
      BY DEF Sees
  <2>1. q # r /\ requests'[q] = requests[q]
      BY <1>4 DEF Idle
  <2> PICK w \in Versions : w = requests[q].version /\ versions[w].status # "none"
      BY <2>1 DEF Sound, Sees
  <2>2. versions[w].prompt \in PromptIds
      BY VersionTyped DEF Sound
  <2>3. active'[versions[w].prompt] = w => active[versions[w].prompt] = w
      BY <1>5, <2>2, NoneIsNoId
  <2> QED
      BY <1>2, <1>9, <2>1, <2>3 DEF Sound, Sees
<1>11. \A q \in Requests : Reads(q)'
  <2>1. Deprecated \subseteq Deprecated'
      BY <1>1, <1>2, <1>3, NewStatus DEF Deprecated
  <2>2. Reads(r)'
      BY <1>4 DEF Reads, Idle
  <2>3. \A q \in Requests \ {r} : Reads(q)'
      BY <1>4, <1>9, <2>1 DEF Sound, Reads
  <2> QED
      BY <2>2, <2>3
<1>12. Exclusive' /\ ChatsHonourDeprecation'
  <2>1. Idle.pc = "idle" /\ Idle.version = None
      BY DEF Idle
  <2>2. \A q \in Requests : requests[q].pc = "save_version" => requests[q].version # None
      BY NoneIsNoId DEF Sound, Draws
  <2> QED
      BY <1>4, <2>1, <2>2 DEF Sound, Exclusive, ChatsHonourDeprecation
<1>13. \A o \in PromptIds : active[o] # None => active[o] \in Versions
    BY DEF Sound, TypeOK
<1>14. Owned'
    BY <1>1, <1>2, <1>3, <1>5, <1>13, NewStatus DEF Sound, Owned
<1>15. StaleOnlyByRace'
    BY <1>1, <1>2, <1>3, <1>5, <1>6, <1>13, NewStatus DEF Sound, StaleOnlyByRace
<1> QED
    BY <1>1, <1>2, <1>3, <1>7, <1>8, <1>10, <1>11, <1>12, <1>14, <1>15, NewStatus DEF Sound

-------------------------------------------------------------------------------

LEMMA StepSound ==
    ASSUME Sound, NEW r \in Requests, Step(r)
    PROVE  Sound'
<1>1. CASE SaveVersion(r)
    BY <1>1, SaveVersionSound
<1>2. CASE FinishDeprecate(r)
    BY <1>2, FinishDeprecateSound
<1>3. CASE ChatWith(r)
    BY <1>3, ChatWithSound
<1>4. CASE ListPrompts(r)
    BY <1>4, ListPromptsSound
<1>5. CASE FindVersion(r)
    BY <1>5, FindVersionSound
<1>6. CASE End(r)
    BY <1>6, FinishSound DEF End
<1> QED
    BY <1>1, <1>2, <1>3, <1>4, <1>5, <1>6 DEF Step

LEMMA SoundInductive == Sound /\ [Next]_vars => Sound'
<1> SUFFICES ASSUME Sound, [Next]_vars PROVE Sound'
    OBVIOUS
<1>1. ASSUME NEW r \in Requests, NEW p \in PromptIds, CreatePrompt(r, p) \/ CreateVersion(r, p)
      PROVE  Sound'
    BY <1>1, CreatePromptSound, CreateVersionSound
<1>2. ASSUME NEW r \in Requests, NEW v \in Versions, BeginDeprecate(r, v) PROVE Sound'
    BY <1>2, BeginDeprecateSound
<1>3. ASSUME NEW v \in Versions, ApproveVersion(v) PROVE Sound'
    BY <1>3, ApproveVersionSound
<1>4. ASSUME NEW r \in Requests, Step(r) PROVE Sound'
    BY <1>4, StepSound
<1>5. CASE UNCHANGED vars
    BY <1>5 DEF vars, Sound, TypeOK, Draws, Sees, Reads, Exclusive, Owned, NumbersInOrder,
                StaleOnlyByRace, ChatsHonourDeprecation, Numbers, Saved, Deprecated
<1> QED
    BY <1>1, <1>2, <1>3, <1>4, <1>5 DEF Next

\* Everything the proofs rest on holds in every state the prompts' tables and the
\* requests upon them reach.
THEOREM SoundAlways == Spec => []Sound
    BY InitSound, SoundInductive, PTL DEF Spec

\* The rows of the prompts and what each request holds of them keep their types.
THEOREM TypesAlways == Spec => []TypeOK
<1>1. Sound => TypeOK
    BY DEF Sound
<1> QED
    BY <1>1, SoundAlways, PTL

\* However many requests number versions at once, a prompt's versions are numbered
\* 1, 2, 3 ... without a gap and without a repetition.
THEOREM NumbersAlways == Spec => []NumbersInOrder
<1>1. Sound => NumbersInOrder
    BY DEF Sound
<1> QED
    BY <1>1, SoundAlways, PTL

\* An approval that overlaps the deprecation of its version is the only way for a prompt
\* to go on with a deprecated one.
THEOREM StaleAlways == Spec => []StaleOnlyByRace
<1>1. Sound => StaleOnlyByRace
    BY DEF Sound
<1> QED
    BY <1>1, SoundAlways, PTL

\* No chat answers with a version that was deprecated when it began and has not been
\* approved since, whichever way it found the version.
THEOREM ChatsAlways == Spec => []ChatsHonourDeprecation
<1>1. Sound => ChatsHonourDeprecation
    BY DEF Sound
<1> QED
    BY <1>1, SoundAlways, PTL

\* Nothing but the deprecation of a prompt's active version takes it away.
THEOREM OnlyDeprecationClears == Spec => OnlyItsDeprecationClears
<1> DEFINE Clears == \A p \in PromptIds :
        active[p] # None /\ active'[p] = None => active[p] \in Deprecated'
<1>1. Sound /\ [Next]_vars => [Clears]_vars
  <2> SUFFICES ASSUME Sound, Next PROVE Clears
      OBVIOUS
  <2>1. CASE UNCHANGED active
      BY <2>1
  <2>2. ASSUME NEW v \in Versions, ApproveVersion(v) PROVE Clears
      BY <2>2, NoneIsNoId DEF ApproveVersion, Sound, TypeOK
  <2>3. ASSUME NEW r \in Requests, FinishDeprecate(r) PROVE Clears
    <3>1. requests[r].version \in Versions /\ versions[requests[r].version].status # "none"
        BY <2>3 DEF FinishDeprecate, Sound, Sees
    <3>2. requests[r].version \in Deprecated'
        BY <2>3, <3>1, NewStatus DEF FinishDeprecate, Deprecated, Statuses
    <3>3. \A p \in PromptIds :
             active[p] # None /\ active'[p] = None => active[p] = requests[r].version
        BY <2>3, <3>1, VersionTyped DEF FinishDeprecate, Sound, TypeOK
    <3> QED
        BY <3>2, <3>3
  <2> QED
      BY <2>1, <2>2, <2>3
      DEF Next, Step, CreatePrompt, CreateVersion, BeginDeprecate, SaveVersion, ChatWith,
          ListPrompts, FindVersion, End
<1> QED
    BY <1>1, SoundAlways, PTL DEF Spec, OnlyItsDeprecationClears
===============================================================================
