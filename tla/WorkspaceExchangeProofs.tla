----------------------- MODULE WorkspaceExchangeProofs ------------------------
(***************************************************************************)
(* Export and import, for any identities, artifacts, policies and bounds.   *)
(* Every replay is a recursive function over the records of a bundle; what it*)
(* leads to is shown record by record (module Recursion).                   *)
(***************************************************************************)
EXTENDS WorkspaceExchange, Recursion

(* f is the replay, record by record.                                       *)
Replays(f, start, records, ids, artifacts, t) ==
  /\ f[0] = start
  /\ \A n \in 1 .. Len(records) :
       f[n] = IF records[n].id \in ids
              THEN ReplayRecord(f[n - 1], records[n], artifacts, t) ELSE f[n - 1]
  /\ Replayed(start, records, ids, artifacts, t) = f[Len(records)]

(* A replay that stays within a set is a function of the records replayed   *)
(* so far.                                                                  *)
LEMMA ReplayedRuns ==
  ASSUME NEW S, NEW start \in S, NEW records, NEW ids, NEW artifacts, NEW t, Len(records) \in Nat,
         \A run \in S, n \in 1 .. Len(records) :
            ReplayRecord(run, records[n], artifacts, t) \in S
  PROVE  \E f \in [0 .. Len(records) -> S] : Replays(f, start, records, ids, artifacts, t)
<1> DEFINE Step(x, n) ==
             IF records[n].id \in ids THEN ReplayRecord(x, records[n], artifacts, t) ELSE x
           step == [n \in 1 .. Len(records) |-> [x \in S |-> Step(x, n)]]
           run == CHOOSE f : f = [n \in 0 .. Len(records) |->
                                    IF n = 0 THEN start ELSE Step(f[n - 1], n)]
<1>1. \A x \in S, n \in 1 .. Len(records) : Step(x, n) \in S
  OBVIOUS
<1> HIDE DEF Step
<1>3. PICK f : IsRun(f, start, step, Len(records), S)
  <2>1. StepsWithin(step, Len(records), S)
    BY <1>1 DEF StepsWithin
  <2> HIDE DEF step
  <2> QED
    BY <2>1, RunExists
<1>4. /\ f \in [0 .. Len(records) -> S] /\ f[0] = start
      /\ \A n \in 1 .. Len(records) : f[n] = step[n][f[n - 1]]
  <2> HIDE DEF step
  <2> QED
    BY <1>3 DEF IsRun
<1>5. \A n \in 1 .. Len(records) : f[n] = Step(f[n - 1], n)
  <2> SUFFICES ASSUME NEW n \in 1 .. Len(records) PROVE f[n] = Step(f[n - 1], n)
    OBVIOUS
  <2>1. f[n - 1] \in S
    BY <1>4
  <2>2. step[n][f[n - 1]] = Step(f[n - 1], n)
    BY <2>1
  <2> HIDE DEF step
  <2> QED
    BY <1>4, <2>2
<1>6. f = [n \in 0 .. Len(records) |-> IF n = 0 THEN start ELSE Step(f[n - 1], n)]
  BY <1>4, <1>5
<1>7. run = [n \in 0 .. Len(records) |-> IF n = 0 THEN start ELSE Step(run[n - 1], n)]
  <2> HIDE DEF step
  <2> QED
    BY <1>6
<1>8. run[0] = start /\ \A n \in 1 .. Len(records) : run[n] = Step(run[n - 1], n)
  <2> HIDE DEF run
  <2> QED
    BY <1>7
<1>9. run \in [0 .. Len(records) -> S]
  <2> HIDE DEF run
  <2> DEFINE T == {n \in 0 .. Len(records) : run[n] \in S}
  <2>1. 0 \in T
    BY <1>8
  <2>2. \A n \in 1 .. Len(records) : n - 1 \in T => n \in T
    BY <1>1, <1>8
  <2>3. \A n \in 0 .. Len(records) : n \in T
    <3> HIDE DEF T
    <3> QED
      BY <2>1, <2>2, EveryNumber
  <2> QED
    BY <2>3, <1>7
<1>10. Replayed(start, records, ids, artifacts, t) = run[Len(records)]
  BY DEF Replayed, Step
<1> QED
  <2> HIDE DEF run
  <2> QED
    BY <1>8, <1>9, <1>10 DEF Step, Replays

(* A record carries a decision that was stored: a body that was understood, *)
(* under a policy that was active.                                          *)
ExportedRecords ==
  [id : Ids, body : Bodies, expected : Codes, governing : Policies, persisted : {TRUE},
   identity : Seq(Events)]

(* A workspace as Init or an import left it: without a policy it is empty;  *)
(* what it holds was decided under policies it has registered, and what it  *)
(* stored had a body.                                                       *)
Sound(w) ==
  /\ w \in Workspaces
  /\ w.active = NoPolicy => w = EmptyWorkspace
  /\ w.active # NoPolicy => w.active \in w.policies
  /\ \A i \in 1 .. Len(w.log) : /\ w.log[i].policy \in w.policies
                                /\ w.log[i].persisted => w.log[i].body \in Bodies

(* Evidence, transitions and what no handler decides are told apart by      *)
(* their kind.                                                              *)
LEMMA BodiesApart ==
  /\ \A b \in Evidence : b.kind = "evidence" /\ b.artifact \in Artifacts
  /\ \A b \in Transitions : /\ b.kind = "transition" /\ b \notin Evidence
                            /\ b.prior \in Policies /\ b.candidate \in Policies
  /\ InvalidBody \notin Bodies
  /\ \A b \in Bodies : b \notin Evidence => b \in Transitions
BY DEF Evidence, Transitions, InvalidBody, Bodies

(* What a sound workspace's log consists of.                                *)
LEMMA SoundLog ==
  ASSUME NEW w, Sound(w)
  PROVE  /\ w.log \in Seq(Events) /\ Len(w.log) \in Nat /\ DOMAIN w.log = 1 .. Len(w.log)
         /\ w.policies \subseteq Policies /\ w.active \in Policies \cup {NoPolicy}
         /\ \A i \in 1 .. Len(w.log) : /\ w.log[i] \in Events /\ w.log[i].policy \in w.policies
                                       /\ w.log[i].persisted => w.log[i].body \in Bodies
BY DEF Sound, Workspaces

(* A stored event is exported as a record.                                  *)
LEMMA RecordOfStored ==
  ASSUME NEW w, Sound(w), NEW i \in 1 .. Len(w.log), w.log[i].persisted
  PROVE  Record(w.log, i) \in ExportedRecords
<1>1. w.log[i] \in Events /\ w.log[i].body \in Bodies /\ w.log[i].persisted = TRUE
  BY SoundLog DEF Events
<1>2. SubSeq(w.log, 1, i) \in Seq(Events)
  BY SoundLog
<1>3. w.log[i].policy \in Policies
  BY SoundLog
<1> QED
  BY <1>1, <1>2, <1>3 DEF Record, ExportedRecords, Events

(* What is kept of the first n events.                                      *)
KeptOf(kept, log, n) ==
  /\ kept \in Seq(ExportedRecords)
  /\ \A j \in 1 .. Len(kept) : \E i \in 1 .. n : log[i].persisted /\ kept[j] = Record(log, i)
  /\ \A i \in 1 .. n :
       log[i].persisted => \E j \in 1 .. Len(kept) : kept[j] = Record(log, i)

(* The records of a log, one event on.                                      *)
LEMMA KeptNext ==
  ASSUME NEW log, NEW n \in Nat, n > 0, NEW kept, KeptOf(kept, log, n - 1), NEW next,
         next = IF log[n].persisted THEN Append(kept, Record(log, n)) ELSE kept,
         log[n].persisted => Record(log, n) \in ExportedRecords
  PROVE  KeptOf(next, log, n)
<1> DEFINE m == Len(kept)
<1>1. kept \in Seq(ExportedRecords) /\ m \in Nat
  BY DEF KeptOf
<1>2. CASE log[n].persisted
  <2>1. /\ next \in Seq(ExportedRecords) /\ Len(next) = m + 1 /\ next[m + 1] = Record(log, n)
        /\ \A j \in 1 .. m : next[j] = kept[j]
    BY <1>1, <1>2
  <2>2. ASSUME NEW j \in 1 .. m + 1
        PROVE  \E i \in 1 .. n : log[i].persisted /\ next[j] = Record(log, i)
    <3>1. CASE j = m + 1
      BY <1>2, <2>1, <3>1
    <3>2. CASE j \in 1 .. m
      <4>1. PICK i \in 1 .. n - 1 : log[i].persisted /\ kept[j] = Record(log, i)
        BY <3>2 DEF KeptOf
      <4> QED
        BY <2>1, <3>2, <4>1
    <3> QED
      BY <1>1, <3>1, <3>2
  <2>3. ASSUME NEW i \in 1 .. n, log[i].persisted
        PROVE  \E j \in 1 .. m + 1 : next[j] = Record(log, i)
    <3>1. CASE i = n
      BY <1>1, <2>1, <3>1
    <3>2. CASE i # n
      <4>1. PICK j \in 1 .. m : kept[j] = Record(log, i)
        BY <2>3, <3>2 DEF KeptOf
      <4> QED
        BY <1>1, <2>1, <4>1
    <3> QED
      BY <3>1, <3>2
  <2> QED
    BY <2>1, <2>2, <2>3 DEF KeptOf
<1>3. CASE ~log[n].persisted
  BY <1>3 DEF KeptOf
<1> QED
  BY <1>2, <1>3

(* kept is the walk over the log that collects its records.                 *)
IsKept(kept, log) ==
  /\ kept[0] = <<>>
  /\ \A n \in 1 .. Len(log) :
       kept[n] = IF log[n].persisted THEN Append(kept[n - 1], Record(log, n)) ELSE kept[n - 1]
  /\ Records(log) = kept[Len(log)]

(* The records of a log as a function of the events read so far.            *)
LEMMA RecordsRun ==
  ASSUME NEW log, Len(log) \in Nat,
         \A n \in 1 .. Len(log) : log[n].persisted => Record(log, n) \in ExportedRecords
  PROVE  \E kept \in [0 .. Len(log) -> Seq(ExportedRecords)] : IsKept(kept, log)
<1> DEFINE S == Seq(ExportedRecords)
           Step(x, n) == IF log[n].persisted THEN Append(x, Record(log, n)) ELSE x
           step == [n \in 1 .. Len(log) |-> [x \in S |-> Step(x, n)]]
           kept == CHOOSE f : f = [n \in 0 .. Len(log) |->
                                     IF n = 0 THEN <<>> ELSE Step(f[n - 1], n)]
<1>3. Records(log) = kept[Len(log)]
  BY DEF Records
<1>4. \A x \in S, n \in 1 .. Len(log) : Step(x, n) \in S
  OBVIOUS
<1> HIDE DEF Step
<1>5. PICK f : IsRun(f, <<>>, step, Len(log), S)
  <2>1. StepsWithin(step, Len(log), S)
    BY <1>4 DEF StepsWithin
  <2>2. <<>> \in S
    OBVIOUS
  <2> HIDE DEF step, S
  <2> QED
    BY <2>1, <2>2, RunExists
<1>6. /\ f \in [0 .. Len(log) -> S] /\ f[0] = <<>>
      /\ \A n \in 1 .. Len(log) : f[n] = step[n][f[n - 1]]
  <2> HIDE DEF step, S
  <2> QED
    BY <1>5 DEF IsRun
<1>7. \A n \in 1 .. Len(log) : f[n] = Step(f[n - 1], n)
  <2> SUFFICES ASSUME NEW n \in 1 .. Len(log) PROVE f[n] = Step(f[n - 1], n)
    OBVIOUS
  <2> HIDE DEF S
  <2>1. f[n - 1] \in S
    BY <1>6
  <2>2. step[n][f[n - 1]] = Step(f[n - 1], n)
    BY <2>1
  <2> HIDE DEF step
  <2> QED
    BY <1>6, <2>2
<1>8. f = [n \in 0 .. Len(log) |-> IF n = 0 THEN <<>> ELSE Step(f[n - 1], n)]
  <2> HIDE DEF step, S
  <2> QED
    BY <1>6, <1>7
<1>9. kept = [n \in 0 .. Len(log) |-> IF n = 0 THEN <<>> ELSE Step(kept[n - 1], n)]
  <2> HIDE DEF step
  <2> QED
    BY <1>8
<1> HIDE DEF kept, step, S
<1>10. kept[0] = <<>> /\ \A n \in 1 .. Len(log) : kept[n] = Step(kept[n - 1], n)
  BY <1>9
<1>11. kept \in [0 .. Len(log) -> S]
  <2> DEFINE T == {n \in 0 .. Len(log) : kept[n] \in S}
  <2>1. <<>> \in S
    BY DEF S
  <2>2. 0 \in T
    BY <1>10, <2>1
  <2>3. \A n \in 1 .. Len(log) : n - 1 \in T => n \in T
    BY <1>4, <1>10
  <2>4. \A n \in 0 .. Len(log) : n \in T
    <3> HIDE DEF T
    <3> QED
      BY <2>2, <2>3, EveryNumber
  <2> QED
    BY <1>9, <2>4
<1>12. IsKept(kept, log)
  BY <1>3, <1>10 DEF IsKept, Step
<1> QED
  BY <1>11, <1>12 DEF S

(* The records of a log are those of its stored events.                     *)
LEMMA RecordsAreStored == ASSUME NEW w, Sound(w) PROVE KeptOf(Records(w.log), w.log, Len(w.log))
<1>1. PICK log : log = w.log /\ Len(log) \in Nat
  BY SoundLog
<1>2. \A n \in 1 .. Len(log) : log[n].persisted => Record(log, n) \in ExportedRecords
  BY <1>1, RecordOfStored
<1>3. PICK kept \in [0 .. Len(log) -> Seq(ExportedRecords)] : IsKept(kept, log)
  BY <1>1, <1>2, RecordsRun
<1> DEFINE T == {n \in 0 .. Len(log) : KeptOf(kept[n], log, n)}
<1>4. 0 \in T
  <2>1. KeptOf(<<>>, log, 0)
    BY DEF KeptOf
  <2> QED
    BY <1>1, <1>3, <2>1 DEF IsKept
<1>5. ASSUME NEW n \in 1 .. Len(log), n - 1 \in T PROVE n \in T
  <2>1. KeptOf(kept[n - 1], log, n - 1) /\ n \in Nat /\ n > 0
    BY <1>5
  <2>2. kept[n] = IF log[n].persisted THEN Append(kept[n - 1], Record(log, n)) ELSE kept[n - 1]
    BY <1>3 DEF IsKept
  <2>3. KeptOf(kept[n], log, n)
    BY <1>2, <2>1, <2>2, KeptNext
  <2> QED
    BY <1>1, <2>3
<1>6. \A n \in 0 .. Len(log) : n \in T
  <2> HIDE DEF T
  <2> QED
    BY <1>1, <1>4, <1>5, EveryNumber
<1> QED
  BY <1>1, <1>3, <1>6 DEF IsKept

(* Where the stored events come first, the i-th record is the i-th event's. *)
LEMMA RecordsUpTo ==
  ASSUME NEW w, Sound(w), NEW m \in 0 .. Len(w.log),
         \A i \in 1 .. Len(w.log) : w.log[i].persisted <=> i <= m
  PROVE  /\ Records(w.log) \in Seq(ExportedRecords) /\ Len(Records(w.log)) = m
         /\ \A i \in 1 .. m : Records(w.log)[i] = Record(w.log, i)
<1>1. PICK log : log = w.log /\ Len(log) \in Nat
  BY SoundLog
<1>2. \A n \in 1 .. Len(log) : log[n].persisted => Record(log, n) \in ExportedRecords
  BY <1>1, RecordOfStored
<1>3. PICK kept \in [0 .. Len(log) -> Seq(ExportedRecords)] : IsKept(kept, log)
  BY <1>1, <1>2, RecordsRun
<1> DEFINE Counted(n) == IF n <= m THEN n ELSE m
           T == {n \in 0 .. Len(log) : /\ Len(kept[n]) = Counted(n)
                                       /\ \A i \in 1 .. Counted(n) : kept[n][i] = Record(log, i)}
<1>4. 0 \in T
  BY <1>1, <1>3 DEF IsKept
<1>5. ASSUME NEW n \in 1 .. Len(log), n - 1 \in T PROVE n \in T
  <2>1. PICK before \in Seq(ExportedRecords) : before = kept[n - 1]
    BY <1>1, <1>3, SMTT(30)
  <2>2. Len(before) = Counted(n - 1) /\ \A i \in 1 .. Counted(n - 1) : before[i] = Record(log, i)
    BY <1>5, <2>1
  <2>3. kept[n] = IF log[n].persisted THEN Append(before, Record(log, n)) ELSE before
    BY <1>3, <2>1 DEF IsKept
  <2>4. CASE n <= m
    <3>1. PICK r \in ExportedRecords : r = Record(log, n) /\ log[n].persisted
      BY <1>1, <1>2, <2>4
    <3>2. PICK after : after = Append(before, r) /\ after = kept[n]
      BY <2>3, <3>1
    <3>3. Len(before) = n - 1 /\ Counted(n) = n /\ n \in Nat
      BY <1>1, <2>2, <2>4
    <3>4. Len(after) = n /\ after[n] = r /\ \A i \in 1 .. n - 1 : after[i] = before[i]
      <4>1. PICK grown \in Seq(ExportedRecords) : grown = Append(before, r)
        <5>1. Append(before, r) \in Seq(ExportedRecords)
          OBVIOUS
        <5> QED
          BY <5>1
      <4>2. /\ Len(grown) = Len(before) + 1 /\ grown[Len(before) + 1] = r
            /\ \A i \in 1 .. Len(before) : grown[i] = before[i]
        BY <4>1
      <4>3. after = grown
        BY <3>2, <4>1
      <4> QED
        BY <3>3, <4>2, <4>3
    <3>5. \A i \in 1 .. n : after[i] = Record(log, i)
      BY <2>2, <2>4, <3>1, <3>4
    <3> QED
      BY <1>1, <3>2, <3>3, <3>4, <3>5
  <2>5. CASE n > m
    BY <1>1, <2>1, <2>2, <2>3, <2>5
  <2> QED
    BY <1>1, <2>4, <2>5
<1>6. \A n \in 0 .. Len(log) : n \in T
  <2> HIDE DEF T
  <2> QED
    BY <1>1, <1>4, <1>5, EveryNumber
<1>7. Len(log) \in T /\ Counted(Len(log)) = m
  BY <1>1, <1>6
<1> QED
  BY <1>1, <1>3, <1>7 DEF IsKept

-----------------------------------------------------------------------------
(* One replayed record.                                                     *)

Conflicts == [id : Ids, code : Codes]
RunFields == [w : Workspaces, failed : BOOLEAN, imported : Nat, replayed : Nat,
              conflicts : Seq(Conflicts)]

(* The replays that started from a log: they only add to it.                *)
ReplaysFrom(log) == {run \in RunFields : Sound(run.w) /\ IsPrefix(log, run.w.log)}

(* A prefix, by places.                                                     *)
LEMMA PrefixMeans ==
  ASSUME NEW s \in Seq(Events), NEW t \in Seq(Events)
  PROVE  IsPrefix(s, t) <=> Len(s) <= Len(t) /\ \A i \in 1 .. Len(s) : s[i] = t[i]
BY DEF IsPrefix

(* A log that grows keeps its prefixes.                                     *)
LEMMA PrefixAppended ==
  ASSUME NEW s \in Seq(Events), NEW t \in Seq(Events), IsPrefix(s, t), NEW e, e \in Events
  PROVE  IsPrefix(s, Append(t, e))
<1>1. Append(t, e) \in Seq(Events)
  OBVIOUS
<1>2. Len(Append(t, e)) = Len(t) + 1 /\ \A i \in 1 .. Len(t) : Append(t, e)[i] = t[i]
  OBVIOUS
<1>3. Len(s) <= Len(t) /\ (\A i \in 1 .. Len(s) : s[i] = t[i]) /\ Len(s) \in Nat /\ Len(t) \in Nat
  BY PrefixMeans
<1>4. PICK u : u = Append(t, e)
  OBVIOUS
<1>5. Len(s) <= Len(u) /\ \A i \in 1 .. Len(s) : s[i] = u[i]
  BY <1>2, <1>3, <1>4
<1> QED
  BY <1>1, <1>4, <1>5, PrefixMeans

(* Logging an event under a registered policy.                              *)
LEMMA LoggedSound ==
  ASSUME NEW w, Sound(w), NEW event \in Events, event.policy \in w.policies,
         event.persisted => event.body \in Bodies, NEW logged, logged = Logged(w, event)
  PROVE  /\ Sound(logged) /\ logged.log = Append(w.log, event)
         /\ logged.active = w.active /\ logged.policies = w.policies
<1>1. w \in [log : Seq(Events), active : Policies \cup {NoPolicy}, policies : SUBSET Policies]
  BY DEF Sound, Workspaces
<1>2. PICK log : log = Append(w.log, event) /\ log \in Seq(Events)
  <2>1. w.log \in Seq(Events)
    BY <1>1
  <2>2. Append(w.log, event) \in Seq(Events)
    BY <2>1
  <2> QED
    BY <2>2
<1>3. logged = [w EXCEPT !.log = log]
  BY <1>2 DEF Logged
<1>4. /\ logged.log = log /\ logged.active = w.active /\ logged.policies = w.policies
      /\ logged \in Workspaces
  BY <1>1, <1>2, <1>3 DEF Workspaces
<1>5. /\ Len(log) = Len(w.log) + 1 /\ log[Len(w.log) + 1] = event /\ Len(w.log) \in Nat
      /\ \A i \in 1 .. Len(w.log) : log[i] = w.log[i]
  BY <1>1, <1>2
<1>6. \A i \in 1 .. Len(log) : /\ log[i].policy \in w.policies
                               /\ log[i].persisted => log[i].body \in Bodies
  BY <1>5 DEF Sound
<1>7. w.active # NoPolicy
  BY DEF Sound, EmptyWorkspace
<1> QED
  BY <1>2, <1>4, <1>6, <1>7 DEF Sound

Times == 0 .. MaxTime
Adds(w, s, event) == s.log = Append(w.log, event)
AsConflicted(e, w) == e.persisted = FALSE /\ e.policy = w.active

(* A conflict is logged without being stored.                               *)
LEMMA ConflictedSound ==
  ASSUME NEW w, Sound(w), w.active # NoPolicy, NEW configured, NEW id \in Ids,
         NEW body \in Bodies \cup {InvalidBody}, NEW t \in Times,
         NEW s, s = Conflicted(w, configured, id, body, t)
  PROVE  /\ Sound(s) /\ s.active = w.active /\ s.policies = w.policies
         /\ \E e \in Events : Adds(w, s, e) /\ AsConflicted(e, w)
<1> DEFINE event == Event(w, id, body, configured, t, "IDEMPOTENCY_CONFLICT", FALSE)
<1>1. event \in Events /\ event.policy = w.active /\ event.persisted = FALSE
  BY SoundLog DEF Event, Events, Codes, Times
<1>2. event.policy \in w.policies
  BY <1>1 DEF Sound
<1>3. PICK logged : logged = Logged(w, event)
  OBVIOUS
<1>4. /\ Sound(logged) /\ logged.log = Append(w.log, event)
      /\ logged.active = w.active /\ logged.policies = w.policies
  BY <1>1, <1>2, <1>3, LoggedSound
<1> QED
  BY <1>1, <1>3, <1>4 DEF Conflicted, Adds, AsConflicted

(* Every decision is one of the codes.                                      *)
LEMMA DecisionIsCode ==
  ASSUME NEW w, NEW artifacts, NEW configured, NEW body
  PROVE  Decide(w, artifacts, configured, body) \in Codes
BY DEF Decide, Codes

AsDecided(e, w, s, configured, id, body, code, t) ==
  /\ e.persisted = TRUE /\ e.id = id /\ e.body = body /\ e.decision = code
  /\ e.policy = w.active /\ e.at = t
  /\ e.configured = IF configured \in s.policies THEN configured ELSE NoPolicy
Moves(w, s, code, body) ==
  IF code = "ACCEPTED" /\ body \in Transitions
  THEN s.active = body.candidate /\ s.policies = w.policies \cup {body.candidate}
  ELSE s.active = w.active /\ s.policies = w.policies

(* What a submission that is decided adds, and where it leads.              *)
LEMMA SettledSound ==
  ASSUME NEW w, Sound(w), w.active # NoPolicy, NEW artifacts, NEW configured, NEW id \in Ids,
         NEW body \in Bodies, NEW t \in Times, NEW code,
         code = Decide(w, artifacts, configured, body),
         NEW settled, settled = Settled(w, artifacts, configured, id, body, t)
  PROVE  /\ Sound(settled) /\ Moves(w, settled, code, body)
         /\ \E e \in Events :
              Adds(w, settled, e) /\ AsDecided(e, w, settled, configured, id, body, code, t)
<1> DEFINE projected ==
      IF code = "ACCEPTED" /\ body \in Transitions
      THEN [w EXCEPT !.active = body.candidate, !.policies = @ \cup {body.candidate}] ELSE w
    event == [Event(w, id, body, configured, t, code, TRUE) EXCEPT
                !.configured = IF configured \in projected.policies THEN configured ELSE NoPolicy]
<1>1. w \in [log : Seq(Events), active : Policies \cup {NoPolicy}, policies : SUBSET Policies]
  BY DEF Sound, Workspaces
<1>2. /\ w.active \in w.policies /\ w.active \in Policies
      /\ \A i \in 1 .. Len(w.log) : /\ w.log[i].policy \in w.policies
                                    /\ w.log[i].persisted => w.log[i].body \in Bodies
  BY <1>1 DEF Sound
<1>3. code \in Codes
  BY DecisionIsCode
<1>4. PICK p : p = projected
  OBVIOUS
<1>5. /\ p \in Workspaces /\ p.log = w.log
      /\ IF code = "ACCEPTED" /\ body \in Transitions
         THEN p.active = body.candidate /\ p.policies = w.policies \cup {body.candidate}
         ELSE p.active = w.active /\ p.policies = w.policies
      /\ p.active \in p.policies /\ w.policies \subseteq p.policies /\ p.policies \subseteq Policies
  <2>1. CASE code = "ACCEPTED" /\ body \in Transitions
    <3>1. body.candidate \in Policies
      BY <2>1, BodiesApart
    <3> QED
      BY <1>1, <1>4, <2>1, <3>1 DEF Workspaces
  <2>2. CASE ~(code = "ACCEPTED" /\ body \in Transitions)
    BY <1>1, <1>2, <1>4, <2>2 DEF Workspaces
  <2> QED
    BY <2>1, <2>2
<1>6. Sound(p)
  BY <1>2, <1>5, NoPolicyAssumption DEF Sound
<1>7. PICK e : e = event
  OBVIOUS
<1>8. /\ e \in Events /\ e.persisted = TRUE /\ e.id = id /\ e.body = body /\ e.decision = code
      /\ e.policy = w.active /\ e.at = t
      /\ e.configured = IF configured \in p.policies THEN configured ELSE NoPolicy
  <2>1. PICK c : c = (IF configured \in p.policies THEN configured ELSE NoPolicy)
                 /\ c \in Policies \cup {NoPolicy}
    BY <1>5
  <2>2. e = [Event(w, id, body, configured, t, code, TRUE) EXCEPT !.configured = c]
    BY <1>4, <1>7, <2>1
  <2> HIDE DEF projected, event
  <2> QED
    BY <1>2, <1>3, <2>1, <2>2 DEF Event, Events, Times
<1>9. settled = Logged(p, e)
  BY <1>4, <1>7 DEF Settled
<1>10. Sound(settled) /\ settled.log = Append(w.log, e)
       /\ settled.active = p.active /\ settled.policies = p.policies
  <2> HIDE DEF projected, event
  <2>1. e.policy \in p.policies
    BY <1>2, <1>5, <1>8
  <2> QED
    BY <1>5, <1>6, <1>8, <1>9, <2>1, LoggedSound
<1> HIDE DEF projected, event
<1> QED
  BY <1>5, <1>8, <1>10 DEF Adds, AsDecided, Moves

(* Before there is a policy nothing can be replayed.                        *)
LEMMA NothingReplaysUnbound ==
  ASSUME NEW run \in RunFields, run.w = EmptyWorkspace, NEW r \in ExportedRecords,
         NEW artifacts, NEW t
  PROVE  ReplayRecord(run, r, artifacts, t) = Failed(run)
<1> DEFINE settled == Settled(run.w, artifacts, r.governing, r.id, r.body, t)
           code == Last(settled.log).decision
           event == [Event(run.w, r.id, r.body, r.governing, t, "POLICY_HASH_MISMATCH", TRUE) EXCEPT
                       !.configured = IF r.governing \in run.w.policies THEN r.governing ELSE NoPolicy]
<1>1. r.governing \in Policies /\ r.governing # NoPolicy /\ r.expected \in Codes
  BY NoPolicyAssumption DEF ExportedRecords
<1>2. /\ run.w.log = <<>> /\ run.w.active = NoPolicy /\ run.w.policies = {}
  BY DEF EmptyWorkspace
<1>3. Decide(run.w, artifacts, r.governing, r.body) = "POLICY_HASH_MISMATCH"
  BY <1>1, <1>2 DEF Decide
<1>4. event.policy = NoPolicy /\ event.decision = "POLICY_HASH_MISMATCH"
  BY <1>2 DEF Event
<1>5. settled = Logged(run.w, event)
  BY <1>3 DEF Settled
<1> HIDE DEF settled, event
<1>6. settled = [EmptyWorkspace EXCEPT !.log = Append(<<>>, event)]
  BY <1>2, <1>5 DEF Logged
<1>7. settled.log = Append(<<>>, event)
  BY <1>6 DEF EmptyWorkspace
<1>8. Len(settled.log) = 1 /\ settled.log[1] = event
  BY <1>7
<1>9. code = "POLICY_HASH_MISMATCH"
  BY <1>4, <1>8 DEF Last
<1>10. ~Reproduced(settled, r)
  <2> SUFFICES ASSUME NEW i \in 1 .. 1, Record(settled.log, i) = r PROVE FALSE
    BY <1>8 DEF Reproduced
  <2>1. Record(settled.log, i).governing = NoPolicy
    BY <1>4, <1>8 DEF Record
  <2> QED
    BY <1>1, <2>1
<1>11. Stored(run.w, r.id) = {}
  BY <1>2 DEF Stored, ToSet
<1>12. code \notin IdentityConflicts
  BY <1>9 DEF IdentityConflicts
<1> HIDE DEF code
<1> QED
  BY <1>9, <1>10, <1>11, <1>12 DEF ReplayRecord, settled, code

(* A conflict of the replay leaves a replay.                                *)
LEMMA ConflictStays ==
  ASSUME NEW log, NEW run \in RunFields, NEW r \in ExportedRecords, NEW w, Sound(w),
         IsPrefix(log, w.log), NEW code \in Codes
  PROVE  Conflict(run, r, w, code) \in ReplaysFrom(log)
<1>1. PICK c \in Conflicts : c = [id |-> r.id, code |-> code]
  <2>1. r.id \in Ids
    BY DEF ExportedRecords
  <2>2. [id |-> r.id, code |-> code] \in Conflicts
    BY <2>1 DEF Conflicts
  <2> QED
    BY <2>2
<1>2. run.conflicts \in Seq(Conflicts) /\ w \in Workspaces
  BY DEF RunFields, Sound
<1>3. PICK all \in Seq(Conflicts) : all = Append(run.conflicts, c)
  <2>1. Append(run.conflicts, c) \in Seq(Conflicts)
    BY <1>2
  <2> QED
    BY <2>1
<1>4. Conflict(run, r, w, code) = [run EXCEPT !.w = w, !.conflicts = all]
  BY <1>1, <1>3 DEF Conflict
<1>5. Conflict(run, r, w, code) \in RunFields /\ Conflict(run, r, w, code).w = w
  BY <1>2, <1>3, <1>4 DEF RunFields
<1> QED
  BY <1>5 DEF ReplaysFrom

(* A decision within a replay extends the log.                              *)
LEMMA SettledStays ==
  ASSUME NEW log \in Seq(Events), NEW w, Sound(w), w.active # NoPolicy, IsPrefix(log, w.log),
         NEW artifacts, NEW configured, NEW id \in Ids, NEW body \in Bodies, NEW t \in Times,
         NEW s, s = Settled(w, artifacts, configured, id, body, t)
  PROVE  /\ Sound(s) /\ IsPrefix(log, s.log)
         /\ Last(s.log).decision = Decide(w, artifacts, configured, body)
<1>1. PICK c : c = Decide(w, artifacts, configured, body)
  OBVIOUS
<1>2. /\ Sound(s)
      /\ \E e \in Events : Adds(w, s, e) /\ AsDecided(e, w, s, configured, id, body, c, t)
  BY <1>1, SettledSound
<1>3. PICK e \in Events : s.log = Append(w.log, e) /\ e.decision = c
  BY <1>2 DEF Adds, AsDecided
<1>4. w.log \in Seq(Events)
  BY SoundLog
<1>5. Last(s.log) = e
  BY <1>3, <1>4 DEF Last
<1> QED
  BY <1>1, <1>2, <1>3, <1>4, <1>5, PrefixAppended

(* So does an identity conflict.                                            *)
LEMMA ConflictedStays ==
  ASSUME NEW log \in Seq(Events), NEW w, Sound(w), w.active # NoPolicy, IsPrefix(log, w.log),
         NEW configured, NEW id \in Ids, NEW t \in Times,
         NEW s, s = Conflicted(w, configured, id, InvalidBody, t)
  PROVE  Sound(s) /\ IsPrefix(log, s.log)
<1>0. InvalidBody \in Bodies \cup {InvalidBody}
  OBVIOUS
<1>1. Sound(s) /\ \E e \in Events : Adds(w, s, e)
  BY <1>0, ConflictedSound
<1>2. PICK e \in Events : s.log = Append(w.log, e)
  BY <1>1 DEF Adds
<1>3. w.log \in Seq(Events)
  BY SoundLog
<1> QED
  BY <1>1, <1>2, <1>3, PrefixAppended

(* Replaying a record extends the log of the workspace replayed into,       *)
(* whatever its outcome.                                                    *)
LEMMA ReplayStays ==
  ASSUME NEW log \in Seq(Events), NEW run \in ReplaysFrom(log), NEW r \in ExportedRecords,
         NEW artifacts, NEW t \in Times
  PROVE  ReplayRecord(run, r, artifacts, t) \in ReplaysFrom(log)
<1>1. PICK w : /\ w = run.w /\ run \in RunFields /\ Sound(w) /\ IsPrefix(log, w.log)
               /\ w.log \in Seq(Events)
  BY SoundLog DEF ReplaysFrom
<1> DEFINE settled == Settled(w, artifacts, r.governing, r.id, r.body, t)
           code == Last(settled.log).decision
           refused == Conflicted(w, r.governing, r.id, InvalidBody, t)
           again == [run EXCEPT !.replayed = @ + 1]
           imported == [run EXCEPT !.w = settled, !.imported = @ + 1]
<1>2. Failed(run) \in ReplaysFrom(log)
  <2>1. Failed(run) \in RunFields /\ Failed(run).w = run.w
    BY <1>1 DEF Failed, RunFields
  <2> QED
    BY <1>1, <2>1 DEF ReplaysFrom
<1>3. CASE w.active = NoPolicy
  BY <1>1, <1>2, <1>3, NothingReplaysUnbound DEF Sound
<1>4. CASE w.active # NoPolicy
  <2>1. r.id \in Ids /\ r.body \in Bodies
    BY DEF ExportedRecords
  <2> HIDE DEF code
  <2>2. PICK s : s = settled
    OBVIOUS
  <2>3. PICK c : c = Decide(w, artifacts, r.governing, r.body) /\ c \in Codes
    BY DecisionIsCode
  <2>4. Sound(s) /\ IsPrefix(log, s.log) /\ Last(s.log).decision = c
    BY <1>1, <1>4, <2>1, <2>2, <2>3, SettledStays
  <2> HIDE DEF settled
  <2>5. code = c
    BY <2>2, <2>4 DEF code
  <2>6. PICK f : f = refused
    OBVIOUS
  <2>7. Sound(f) /\ IsPrefix(log, f.log)
    BY <1>1, <1>4, <2>1, <2>6, ConflictedStays
  <2> HIDE DEF refused
  <2>9. again \in ReplaysFrom(log)
    <3>1. again \in RunFields /\ again.w = w
      BY <1>1 DEF RunFields
    <3> QED
      BY <1>1, <3>1 DEF ReplaysFrom
  <2>10. imported \in ReplaysFrom(log)
    <3>1. s \in Workspaces
      BY <2>4 DEF Sound
    <3>2. PICK n \in Nat : n = run.imported + 1
      BY <1>1 DEF RunFields
    <3>3. imported = [run EXCEPT !.w = s, !.imported = n]
      BY <2>2, <3>2
    <3> HIDE DEF imported
    <3>4. imported \in RunFields /\ imported.w = s
      BY <1>1, <3>1, <3>3 DEF RunFields
    <3> QED
      BY <2>4, <3>4 DEF ReplaysFrom
  <2>11. Conflict(run, r, f, "IDEMPOTENCY_CONFLICT") \in ReplaysFrom(log)
    BY <1>1, <2>7, ConflictStays DEF Codes
  <2>12. Conflict(run, r, s, c) \in ReplaysFrom(log)
    BY <1>1, <2>3, <2>4, ConflictStays
  <2> HIDE DEF again, imported
  <2>13. ReplayRecord(run, r, artifacts, t) \in
           {Failed(run), again, imported, Conflict(run, r, f, "IDEMPOTENCY_CONFLICT"),
            Conflict(run, r, s, c)}
    BY <1>1, <2>2, <2>5, <2>6 DEF ReplayRecord, settled, code, refused, again, imported
  <2> QED
    BY <1>2, <2>9, <2>10, <2>11, <2>12, <2>13
<1> QED
  BY <1>3, <1>4

(* A log is a prefix of itself.                                             *)
LEMMA PrefixReflexive == ASSUME NEW s \in Seq(Events) PROVE IsPrefix(s, s)
BY PrefixMeans

-----------------------------------------------------------------------------
(* The bundle and its replay into a workspace.                              *)

(* What a bundle of a sound workspace holds.                                *)
LEMMA BundleTyped ==
  ASSUME NEW w, Sound(w), w.active # NoPolicy, NEW bundle, bundle = Export(w)
  PROVE  /\ bundle.records = Records(w.log) /\ bundle.records \in Seq(ExportedRecords)
         /\ bundle.bootstrap \in w.policies /\ bundle.bootstrap \in Policies
         /\ bundle.active = w.active /\ bundle.artifacts \subseteq Artifacts
<1>1. PICK records : records = Records(w.log)
  OBVIOUS
<1>2. /\ records \in Seq(ExportedRecords)
      /\ \A j \in 1 .. Len(records) :
           \E i \in 1 .. Len(w.log) : w.log[i].persisted /\ records[j] = Record(w.log, i)
  BY <1>1, RecordsAreStored DEF KeptOf
<1>3. /\ bundle.records = records /\ bundle.active = w.active
      /\ bundle.bootstrap = IF records = <<>> THEN w.active ELSE records[1].governing
      /\ bundle.artifacts = {r.body.artifact : r \in {q \in ToSet(records) : q.body \in Evidence}}
  BY <1>1 DEF Export
<1>4. w.active \in w.policies /\ w.policies \subseteq Policies
  BY SoundLog DEF Sound
<1>5. records # <<>> => records[1].governing \in w.policies
  <2> SUFFICES ASSUME records # <<>> PROVE records[1].governing \in w.policies
    OBVIOUS
  <2>1. 1 \in 1 .. Len(records)
    BY <1>2
  <2>2. PICK i \in 1 .. Len(w.log) : records[1] = Record(w.log, i)
    BY <1>2, <2>1
  <2>3. records[1].governing = w.log[i].policy
    BY <2>2 DEF Record
  <2> QED
    BY <2>3, SoundLog
<1>6. bundle.artifacts \subseteq Artifacts
  BY <1>3, BodiesApart
<1> QED
  BY <1>1, <1>2, <1>3, <1>4, <1>5, <1>6

(* A workspace with its first policy is sound.                              *)
LEMMA FreshSound ==
  ASSUME NEW p \in Policies, NEW w, w = [log |-> <<>>, active |-> p, policies |-> {p}]
  PROVE  Sound(w) /\ w.log = <<>> /\ w.active = p /\ w.active # NoPolicy
<1>1. w \in Workspaces /\ w.log = <<>> /\ w.active = p /\ w.policies = {p}
  BY DEF Workspaces
<1>2. 1 .. Len(w.log) = {}
  BY <1>1
<1>3. w.active # NoPolicy
  BY <1>1, NoPolicyAssumption
<1> QED
  BY <1>1, <1>2, <1>3 DEF Sound

(* Preparing the target touches no log, and nothing of a target that has a  *)
(* policy.                                                                  *)
LEMMA PreparedSound ==
  ASSUME NEW w, Sound(w), NEW bundle, bundle.bootstrap \in Policies, NEW p, p = Prepared(w, bundle)
  PROVE  /\ Sound(p) /\ p.log = w.log /\ p.active # NoPolicy
         /\ w.active # NoPolicy => p = w
<1>1. CASE w.active = NoPolicy
  <2>1. w = EmptyWorkspace
    BY <1>1 DEF Sound
  <2>2. p = [w EXCEPT !.active = bundle.bootstrap, !.policies = @ \cup {bundle.bootstrap}]
    BY <1>1 DEF Prepared
  <2>3. p = [log |-> <<>>, active |-> bundle.bootstrap, policies |-> {bundle.bootstrap}]
    BY <2>1, <2>2, ZenonT(30) DEF EmptyWorkspace
  <2>4. w.log = <<>>
    BY <2>1 DEF EmptyWorkspace
  <2> QED
    BY <1>1, <2>3, <2>4, FreshSound
<1>2. CASE w.active # NoPolicy
  BY <1>2 DEF Prepared
<1> QED
  BY <1>1, <1>2

(* What an import proposes for a workspace only adds to its log.            *)
LEMMA CommitStays ==
  ASSUME NEW bundle, bundle.records \in Seq(ExportedRecords), bundle.bootstrap \in Policies,
         NEW w, Sound(w), NEW artifacts, NEW t \in Times,
         NEW run, run = CommitWorkspace(bundle, w, artifacts, t)
  PROVE  run \in ReplaysFrom(w.log)
<1>1. PICK p : p = Prepared(w, bundle)
  OBVIOUS
<1>2. Sound(p) /\ p.log = w.log
  BY <1>1, PreparedSound
<1>3. PICK log : log = w.log /\ log \in Seq(Events)
  BY SoundLog
<1>4. PICK S : S = ReplaysFrom(log)
  OBVIOUS
<1>5. PICK start : start = [w |-> p, failed |-> bundle.bootstrap \notin p.policies,
                            imported |-> 0, replayed |-> 0, conflicts |-> <<>>]
  OBVIOUS
<1>6. start \in S
  <2>1. PICK b \in BOOLEAN : b = (bundle.bootstrap \notin p.policies)
    <3>1. (bundle.bootstrap \notin p.policies) \in BOOLEAN
      OBVIOUS
    <3> QED
      BY <3>1, Zenon
  <2>2. start = [w |-> p, failed |-> b, imported |-> 0, replayed |-> 0, conflicts |-> <<>>]
    BY <1>5, <2>1, Zenon
  <2>3. start \in RunFields /\ start.w = p
    BY <1>2, <2>2 DEF RunFields, Sound
  <2> QED
    BY <1>2, <1>3, <1>4, <2>3, PrefixReflexive DEF ReplaysFrom
<1>7. PICK records : records = bundle.records /\ records \in Seq(ExportedRecords)
  OBVIOUS
<1>8. \A x \in S, n \in 1 .. Len(records) : ReplayRecord(x, records[n], artifacts, t) \in S
  <2> SUFFICES ASSUME NEW x \in S, NEW n \in 1 .. Len(records)
               PROVE  ReplayRecord(x, records[n], artifacts, t) \in S
    OBVIOUS
  <2>1. PICK r \in ExportedRecords : r = records[n]
    BY <1>7
  <2> QED
    BY <1>3, <1>4, <2>1, ReplayStays
<1>9. PICK f \in [0 .. Len(records) -> S] : Replays(f, start, records, Ids, artifacts, t)
  <2>1. Len(records) \in Nat
    BY <1>7
  <2> QED
    BY <1>6, <1>8, <2>1, ReplayedRuns
<1>10. PICK all : all = Replayed(start, records, Ids, artifacts, t) /\ all \in S
  <2>1. Len(records) \in 0 .. Len(records)
    BY <1>7
  <2> QED
    BY <1>9, <2>1 DEF Replays
<1>11. run = all \/ run = Failed(all)
  BY <1>1, <1>5, <1>7, <1>10 DEF CommitWorkspace, Confirmed
<1>12. Failed(all) \in S
  <2>1. all \in RunFields
    BY <1>4, <1>10 DEF ReplaysFrom
  <2>2. Failed(all) \in RunFields /\ Failed(all).w = all.w
    BY <2>1 DEF Failed, RunFields
  <2> QED
    BY <1>4, <1>10, <2>2 DEF ReplaysFrom
<1> QED
  BY <1>3, <1>4, <1>10, <1>11, <1>12

(* The conflicting records alone, too.                                      *)
LEMMA ConflictsStay ==
  ASSUME NEW records \in Seq(ExportedRecords), NEW w, Sound(w), NEW ids, NEW artifacts,
         NEW t \in Times, NEW start,
         start = [w |-> w, failed |-> FALSE, imported |-> 0, replayed |-> 0, conflicts |-> <<>>],
         NEW run, run = Replayed(start, records, ids, artifacts, t)
  PROVE  run \in ReplaysFrom(w.log)
<1>1. PICK log : log = w.log /\ log \in Seq(Events)
  BY SoundLog
<1>2. PICK S : S = ReplaysFrom(log)
  OBVIOUS
<1>3. start \in S
  <2>1. start \in RunFields /\ start.w = w
    BY DEF RunFields, Sound
  <2> QED
    BY <1>1, <1>2, <2>1, PrefixReflexive DEF ReplaysFrom
<1>4. \A x \in S, n \in 1 .. Len(records) : ReplayRecord(x, records[n], artifacts, t) \in S
  <2> SUFFICES ASSUME NEW x \in S, NEW n \in 1 .. Len(records)
               PROVE  ReplayRecord(x, records[n], artifacts, t) \in S
    OBVIOUS
  <2>1. PICK r \in ExportedRecords : r = records[n]
    OBVIOUS
  <2> QED
    BY <1>1, <1>2, <2>1, ReplayStays
<1>5. PICK f \in [0 .. Len(records) -> S] : Replays(f, start, records, ids, artifacts, t)
  <2>1. Len(records) \in Nat
    OBVIOUS
  <2> QED
    BY <1>3, <1>4, <2>1, ReplayedRuns
<1>6. Len(records) \in 0 .. Len(records)
  OBVIOUS
<1> QED
  BY <1>1, <1>2, <1>5, <1>6 DEF Replays

-----------------------------------------------------------------------------
(* The inductive invariant.                                                 *)

(* What an import under way holds: the bundle of the workspace it read.     *)
ImportHolds ==
  importer.phase # "idle" =>
    /\ importer.phase # "read" =>
         DOMAIN importer =
           {"phase", "bundle", "origin", "expected", "created", "left", "outcome"}
    /\ Sound(importer.origin) /\ importer.origin.active # NoPolicy
    /\ importer.bundle = Export(importer.origin)
    /\ importer.outcome = "none"
ExchangeInv == TypeOK /\ (\A side \in Sides : Sound(ws[side])) /\ ImportHolds

(* A workspace without a policy is sound.                                   *)
LEMMA EmptySound == Sound(EmptyWorkspace) /\ EmptyWorkspace \in Workspaces
BY NoPolicyAssumption DEF Sound, EmptyWorkspace, Workspaces

(* The invariant holds of two empty workspaces and no import.               *)
THEOREM ExchangeInit == Init => ExchangeInv
<1> SUFFICES ASSUME Init PROVE ExchangeInv
  OBVIOUS
<1>1. \A side \in Sides : ws[side] = EmptyWorkspace
  BY DEF Init
<1>2. MaxTime \in Nat
  BY BoundsAssumption
<1> QED
  BY <1>1, <1>2, EmptySound DEF Init, ExchangeInv, TypeOK, ImportHolds, Idle

(* Where a step changes one workspace, soundness is that one's.             *)
LEMMA OneChanged ==
  ASSUME ExchangeInv, NEW side \in Sides, NEW w, Sound(w), ws' = [ws EXCEPT ![side] = w],
         IsPrefix(ws[side].log, w.log)
  PROVE  /\ ws' \in [Sides -> Workspaces]
         /\ \A s \in Sides : Sound(ws'[s])
         /\ \A s \in Sides : IsPrefix(ws[s].log, ws'[s].log)
<1>1. ws \in [Sides -> Workspaces] /\ \A s \in Sides : Sound(ws[s]) /\ ws[s].log \in Seq(Events)
  BY SoundLog DEF ExchangeInv, TypeOK
<1>2. \A s \in Sides : ws'[s] = IF s = side THEN w ELSE ws[s]
  BY <1>1
<1>3. w \in Workspaces
  BY DEF Sound
<1> QED
  BY <1>1, <1>2, <1>3, PrefixReflexive

(* Steps of the importer alone leave both workspaces.                       *)
LEMMA NoneChanged ==
  ASSUME ExchangeInv, UNCHANGED ws
  PROVE  /\ ws' \in [Sides -> Workspaces]
         /\ \A s \in Sides : Sound(ws'[s])
         /\ \A s \in Sides : IsPrefix(ws[s].log, ws'[s].log)
BY SoundLog, PrefixReflexive DEF ExchangeInv, TypeOK

(* Every step keeps the invariant and only adds to the logs.                *)
LEMMA ExchangeStep ==
  ASSUME ExchangeInv, [Next]_vars
  PROVE  ExchangeInv' /\ \A side \in Sides : IsPrefix(ws[side].log, ws[side]'.log)
<1> DEFINE Grown == /\ ws' \in [Sides -> Workspaces] /\ \A s \in Sides : Sound(ws'[s])
                    /\ \A s \in Sides : IsPrefix(ws[s].log, ws'[s].log)
<1> USE DEF ExchangeInv
<1>0. now \in Times /\ MaxTime \in Nat
  BY BoundsAssumption DEF TypeOK, Times
<1>1. CASE UNCHANGED vars
  <2>1. Grown
    BY <1>1, NoneChanged DEF vars
  <2> QED
    BY <1>1, <2>1 DEF vars, TypeOK, ImportHolds
<1>2. CASE Tick
  <2>1. Grown
    BY <1>2, NoneChanged DEF Tick
  <2>2. now' \in 0 .. MaxTime
    BY <1>0, <1>2 DEF Tick, Times
  <2> QED
    BY <1>2, <2>1, <2>2 DEF Tick, TypeOK, ImportHolds
<1>3. ASSUME NEW side \in Sides, NEW p \in Policies, InitCommand(side, p)
      PROVE  ExchangeInv' /\ Grown
  <2>0. PICK old : old = ws[side]
    OBVIOUS
  <2>1. PICK w : w = [old EXCEPT !.active = p, !.policies = {p}]
    OBVIOUS
  <2>2. Sound(w) /\ IsPrefix(ws[side].log, w.log)
    <3>1. old = [log |-> <<>>, active |-> NoPolicy, policies |-> {}]
      BY <1>3, <2>0 DEF InitCommand, EmptyWorkspace
    <3>2. w = [log |-> <<>>, active |-> p, policies |-> {p}]
      BY <2>1, <3>1
    <3>3. Sound(w) /\ w.log = <<>>
      BY <3>2, FreshSound
    <3>4. ws[side].log = <<>> /\ <<>> \in Seq(Events)
      BY <2>0, <3>1
    <3> QED
      BY <3>3, <3>4, PrefixReflexive
  <2>3. ws' = [ws EXCEPT ![side] = w]
    BY <1>3, <2>0, <2>1 DEF InitCommand
  <2>4. Grown
    BY <2>2, <2>3, OneChanged
  <2> QED
    BY <1>3, <2>4 DEF InitCommand, TypeOK, ImportHolds
<1>4. ASSUME NEW side \in Sides, NEW a \in Artifacts, PutArtifact(side, a)
      PROVE  ExchangeInv' /\ Grown
  <2>1. Grown
    BY <1>4, NoneChanged DEF PutArtifact
  <2>2. store' \in [Sides -> SUBSET Artifacts]
    BY <1>4 DEF PutArtifact, TypeOK
  <2> QED
    BY <1>4, <2>1, <2>2 DEF PutArtifact, TypeOK, ImportHolds
<1>5. ASSUME NEW side \in Sides, NEW configured \in Policies, NEW id \in Ids, NEW body \in Bodies,
             Submit(side, configured, id, body)
      PROVE  ExchangeInv' /\ Grown
  <2>1. PICK w : w = ws[side] /\ Sound(w) /\ configured \in w.policies
    BY <1>5 DEF Submit
  <2>2. PICK log : log = w.log /\ log \in Seq(Events) /\ IsPrefix(log, log)
    BY <2>1, SoundLog, PrefixReflexive
  <2>3. w.active # NoPolicy
    BY <2>1 DEF Sound, EmptyWorkspace
  <2>4. PICK t \in Times : t = now
    BY <1>0
  <2>5. PICK artifacts : artifacts = store[side]
    OBVIOUS
  <2>6. PICK s : s = Settled(w, artifacts, configured, id, body, t)
    OBVIOUS
  <2>7. PICK c : c = Conflicted(w, configured, id, body, t)
    OBVIOUS
  <2>8. Sound(s) /\ IsPrefix(log, s.log)
    BY <2>1, <2>2, <2>3, <2>6, SettledStays
  <2>9. Sound(c) /\ IsPrefix(log, c.log)
    <3>1. Sound(c) /\ \E e \in Events : Adds(w, c, e)
      <4>1. body \in Bodies \cup {InvalidBody}
        OBVIOUS
      <4> QED
        BY <2>1, <2>3, <2>7, <4>1, ConflictedSound
    <3>2. PICK e \in Events : c.log = Append(log, e)
      BY <2>2, <3>1 DEF Adds
    <3> QED
      BY <2>2, <3>1, <3>2, PrefixAppended
  <2>10. ws' = [ws EXCEPT ![side] = IF Stored(w, id) = {} THEN s ELSE c]
    BY <1>5, <2>1, <2>4, <2>5, <2>6, <2>7 DEF Submit
  <2>11. PICK next : next = (IF Stored(w, id) = {} THEN s ELSE c)
    OBVIOUS
  <2>12. Sound(next) /\ IsPrefix(ws[side].log, next.log) /\ ws' = [ws EXCEPT ![side] = next]
    BY <2>1, <2>2, <2>8, <2>9, <2>10, <2>11
  <2>13. Grown
    BY <2>12, OneChanged
  <2> QED
    BY <1>5, <2>13 DEF Submit, TypeOK, ImportHolds
<1>6. CASE StartImport
  <2>1. Grown
    BY <1>6, NoneChanged DEF StartImport
  <2>2. PICK origin : origin = ws["source"] /\ Sound(origin) /\ origin.active # NoPolicy
    BY <1>6 DEF StartImport, Exportable, Sides
  <2>3. importer' = [phase |-> "read", bundle |-> Export(origin), origin |-> origin,
                     outcome |-> "none"]
    BY <1>6, <2>2 DEF StartImport
  <2>4. ImportHolds'
    BY <2>2, <2>3 DEF ImportHolds
  <2>5. UNCHANGED <<ws, store, now>>
    BY <1>6 DEF StartImport
  <2> QED
    BY <2>1, <2>3, <2>4, <2>5 DEF TypeOK
<1>11. CASE PreflightImport
  <2>1. Grown
    BY <1>11, NoneChanged DEF PreflightImport
  <2>2. PICK bundle, origin :
          /\ bundle = importer.bundle /\ origin = importer.origin
          /\ Sound(origin) /\ origin.active # NoPolicy /\ bundle = Export(origin)
    BY <1>11 DEF PreflightImport, ImportHolds
  <2>3. UNCHANGED <<ws, store, now>>
    BY <1>11 DEF PreflightImport
  <2>4. PICK run : run = Preflight(bundle, ws["target"], store["target"], now)
    OBVIOUS
  <2>5. PICK phase : phase = (IF run.conflicts = <<>> THEN "commit" ELSE "conflicts")
    OBVIOUS
  <2>6. PICK held : held = [phase |-> phase, bundle |-> bundle, origin |-> origin,
                            expected |-> run, created |-> {}, left |-> bundle.artifacts,
                            outcome |-> "none"]
    OBVIOUS
  <2>7. importer' = held \/ importer' = Idle("failed")
    BY <1>11, <2>2, <2>4, <2>5, <2>6, Zenon DEF PreflightImport
  <2>8. CASE importer' = Idle("failed")
    BY <2>1, <2>3, <2>8 DEF TypeOK, ImportHolds, Idle
  <2>9. CASE importer' = held
    <3>1. phase \in {"commit", "conflicts"}
      BY <2>5
    <3>2. ImportHolds'
      BY <2>2, <2>6, <2>9, <3>1 DEF ImportHolds
    <3> QED
      BY <2>1, <2>3, <2>6, <2>9, <3>1, <3>2 DEF TypeOK
  <2> QED
    BY <2>7, <2>8, <2>9
<1>7. CASE CommitConflicts
  <2>1. PICK w : w = ws["target"] /\ Sound(w)
    BY DEF Sides
  <2>2. PICK records : records = importer.bundle.records /\ records \in Seq(ExportedRecords)
    <3>1. /\ Sound(importer.origin) /\ importer.origin.active # NoPolicy
          /\ importer.bundle = Export(importer.origin)
      BY <1>7 DEF CommitConflicts, ImportHolds
    <3>2. PICK origin : origin = importer.origin
      OBVIOUS
    <3>3. PICK bundle : bundle = importer.bundle
      OBVIOUS
    <3> QED
      BY <3>1, <3>2, <3>3, BundleTyped
  <2>3. PICK start : start = [w |-> w, failed |-> FALSE, imported |-> 0, replayed |-> 0,
                              conflicts |-> <<>>]
    OBVIOUS
  <2>4. PICK ids : ids = {c.id : c \in ToSet(importer.expected.conflicts)}
    OBVIOUS
  <2>5. PICK artifacts : artifacts = store["target"]
    OBVIOUS
  <2>6. PICK t \in Times : t = now
    BY <1>0
  <2>7. PICK run : run = Replayed(start, records, ids, artifacts, t)
    OBVIOUS
  <2>8. run \in ReplaysFrom(w.log)
    BY <2>1, <2>2, <2>3, <2>7, ConflictsStay
  <2>9. PICK next : /\ next = run.w \/ next = w
                    /\ ws' = [ws EXCEPT !["target"] = next]
                    /\ \E outcome \in {"conflicts", "failed"} : importer' = Idle(outcome)
                    /\ UNCHANGED <<store, now>>
    <3>1. PICK ok : ok = (~run.failed /\ run.conflicts = importer.expected.conflicts)
      OBVIOUS
    <3>2. PICK next : next = (IF ok THEN run.w ELSE w)
      OBVIOUS
    <3>3. PICK outcome : outcome = (IF ok THEN "conflicts" ELSE "failed")
      OBVIOUS
    <3>4. ws' = [ws EXCEPT !["target"] = next] /\ importer' = Idle(outcome)
          /\ UNCHANGED <<store, now>>
      BY <1>7, <2>1, <2>2, <2>3, <2>4, <2>5, <2>6, <2>7, <3>1, <3>2, <3>3, Zenon
         DEF CommitConflicts
    <3> QED
      BY <3>2, <3>3, <3>4
  <2>10. PICK log \in Seq(Events) : log = w.log
    BY <2>1, SoundLog
  <2>11. Sound(next) /\ IsPrefix(ws["target"].log, next.log)
    BY <2>1, <2>8, <2>9, <2>10, PrefixReflexive DEF ReplaysFrom
  <2>12. Grown
    BY <2>9, <2>11, OneChanged DEF Sides
  <2> QED
    BY <2>9, <2>12 DEF TypeOK, ImportHolds, Idle
<1>8. ASSUME NEW a \in Artifacts, TransferArtifact(a)
      PROVE  ExchangeInv' /\ Grown
  <2>1. Grown
    BY <1>8, NoneChanged DEF TransferArtifact
  <2>2. store' = [store EXCEPT !["target"] = @ \cup {a}] /\ UNCHANGED <<ws, now>>
    BY <1>8 DEF TransferArtifact
  <2>3. PICK old : /\ old = importer /\ old.phase = "commit" /\ a \in old.left
                   /\ DOMAIN old = {"phase", "bundle", "origin", "expected", "created", "left",
                                    "outcome"}
    BY <1>8 DEF TransferArtifact, ImportHolds
  <2>4. PICK left, created : /\ left = old.left \ {a}
                             /\ created = old.created \cup ({a} \ store["target"])
    OBVIOUS
  <2>5. PICK new : new = [old EXCEPT !.left = left, !.created = created] /\ importer' = new
    BY <1>8, <2>3, <2>4 DEF TransferArtifact
  <2>6. /\ DOMAIN new = DOMAIN old /\ new.phase = "commit" /\ new.bundle = old.bundle
        /\ new.origin = old.origin /\ new.outcome = old.outcome
        /\ new.left = left /\ new.created = created
    BY <2>3, <2>5
  <2>7. ImportHolds'
    BY <2>3, <2>5, <2>6 DEF ImportHolds
  <2>8. /\ old.created \cup old.left \subseteq old.bundle.artifacts
        /\ old.created \cap old.left = {}
        /\ old.bundle.artifacts \ old.left \subseteq store["target"]
    BY <2>3 DEF TypeOK
  <2>9. /\ store' \in [Sides -> SUBSET Artifacts]
        /\ store'["target"] = store["target"] \cup {a}
    BY <2>2 DEF TypeOK, Sides
  <2>10. /\ created \cup left \subseteq new.bundle.artifacts
         /\ created \cap left = {}
         /\ new.bundle.artifacts \ left \subseteq store'["target"]
    BY <2>3, <2>4, <2>6, <2>8, <2>9
  <2>11. importer'.outcome \in {"none", "verified", "conflicts", "failed"}
    BY <2>3, <2>5, <2>6 DEF TypeOK
  <2> QED
    BY <2>1, <2>2, <2>5, <2>6, <2>7, <2>9, <2>10, <2>11 DEF TypeOK
<1>9. CASE CommitImport
  <2>1. PICK w : w = ws["target"] /\ Sound(w)
    BY DEF Sides
  <2>2. PICK bundle : /\ bundle = importer.bundle /\ bundle.records \in Seq(ExportedRecords)
                      /\ bundle.bootstrap \in Policies
    <3>1. /\ Sound(importer.origin) /\ importer.origin.active # NoPolicy
          /\ importer.bundle = Export(importer.origin)
      BY <1>9 DEF CommitImport, ImportHolds
    <3>2. PICK origin : origin = importer.origin
      OBVIOUS
    <3>3. PICK bundle : bundle = importer.bundle
      OBVIOUS
    <3> QED
      BY <3>1, <3>2, <3>3, BundleTyped
  <2>3. PICK artifacts : artifacts = store["target"]
    OBVIOUS
  <2>4. PICK t \in Times : t = now
    BY <1>0
  <2>5. PICK run : run = CommitWorkspace(bundle, w, artifacts, t)
    OBVIOUS
  <2>6. run \in ReplaysFrom(w.log)
    BY <2>1, <2>2, <2>5, CommitStays
  <2>7. PICK next, kept :
          /\ next = run.w \/ next = w
          /\ ws' = [ws EXCEPT !["target"] = next]
          /\ kept = artifacts \/ kept = artifacts \ importer.created
          /\ store' = [store EXCEPT !["target"] = kept]
          /\ \E outcome \in {"verified", "failed"} : importer' = Idle(outcome)
          /\ UNCHANGED now
    <3>1. PICK ok : ok = (Verified(run) /\ run.imported = importer.expected.imported
                                        /\ run.replayed = importer.expected.replayed)
      OBVIOUS
    <3>2. PICK next : next = (IF ok THEN run.w ELSE w)
      OBVIOUS
    <3>3. PICK kept : kept = (IF ok THEN artifacts ELSE artifacts \ importer.created)
      OBVIOUS
    <3>4. PICK outcome : outcome = (IF ok THEN "verified" ELSE "failed")
      OBVIOUS
    <3>5. /\ ws' = [ws EXCEPT !["target"] = next] /\ store' = [store EXCEPT !["target"] = kept]
          /\ importer' = Idle(outcome) /\ UNCHANGED now
      BY <1>9, <2>1, <2>2, <2>3, <2>4, <2>5, <3>1, <3>2, <3>3, <3>4, Zenon DEF CommitImport
    <3> QED
      BY <3>2, <3>3, <3>4, <3>5
  <2>8. PICK log \in Seq(Events) : log = w.log
    BY <2>1, SoundLog
  <2>9. Sound(next) /\ IsPrefix(ws["target"].log, next.log)
    BY <2>1, <2>6, <2>7, <2>8, PrefixReflexive DEF ReplaysFrom
  <2>10. Grown
    BY <2>7, <2>9, OneChanged DEF Sides
  <2>11. store' \in [Sides -> SUBSET Artifacts]
    BY <2>3, <2>7 DEF TypeOK, Sides
  <2> QED
    BY <2>7, <2>10, <2>11 DEF TypeOK, ImportHolds, Idle
<1>10. CASE ImporterCrash
  <2>1. Grown
    BY <1>10, NoneChanged DEF ImporterCrash
  <2> QED
    BY <1>10, <2>1 DEF ImporterCrash, TypeOK, ImportHolds, Idle
<1> QED
  BY <1>1, <1>2, <1>3, <1>4, <1>5, <1>6, <1>7, <1>8, <1>9, <1>10, <1>11 DEF Next

(* Both workspaces stay well formed, and an import removes only what it     *)
(* stored itself.                                                           *)
THEOREM WorkspacesTyped == Spec => []TypeOK
<1>1. ExchangeInv /\ [Next]_vars => ExchangeInv'
  BY ExchangeStep
<1>2. ExchangeInv => TypeOK
  BY DEF ExchangeInv
<1> QED
  BY ExchangeInit, <1>1, <1>2, PTL DEF Spec

(* Neither clients nor imports rewrite or drop an audit event of either     *)
(* workspace (ImportNeverRewrites).                                         *)
THEOREM NothingRewritten == Spec => ImportNeverRewrites
<1>1. ExchangeInv /\ [Next]_vars => ExchangeInv'
  BY ExchangeStep
<1>2. ExchangeInv /\ [Next]_vars => [\A side \in Sides : IsPrefix(ws[side].log, ws[side]'.log)]_vars
  BY ExchangeStep
<1> QED
  BY ExchangeInit, <1>1, <1>2, PTL DEF Spec, ImportNeverRewrites

-----------------------------------------------------------------------------
(* What equal bundles say of the workspaces they were read from.            *)

Shares(w, u, i) ==
  i \in 1 .. Len(u.log) /\ w.log[i] = u.log[i] /\ IsPrefix(SubSeq(w.log, 1, i), u.log)

(* Equal records come from equal stored events.                             *)
LEMMA SameRecords ==
  ASSUME NEW w, Sound(w), NEW u, Sound(u), Records(w.log) = Records(u.log),
         NEW i \in 1 .. Len(w.log), w.log[i].persisted
  PROVE  Shares(w, u, i)
<1>1. PICK log \in Seq(Events) : log = w.log
  BY SoundLog
<1>2. PICK other \in Seq(Events) : other = u.log
  BY SoundLog
<1>3. PICK records : records = Records(log) /\ records = Records(other)
  BY <1>1, <1>2
<1>4. KeptOf(records, log, Len(log)) /\ KeptOf(records, other, Len(other))
  BY <1>1, <1>2, <1>3, RecordsAreStored
<1>5. PICK j \in 1 .. Len(records) : records[j] = Record(log, i)
  BY <1>1, <1>4 DEF KeptOf
<1>6. PICK k \in 1 .. Len(other) : records[j] = Record(other, k)
  BY <1>4 DEF KeptOf
<1>7. PICK past : past = SubSeq(log, 1, i) /\ past = SubSeq(other, 1, k)
  <2>1. Record(log, i).identity = SubSeq(log, 1, i)
    BY DEF Record
  <2>2. Record(other, k).identity = SubSeq(other, 1, k)
    BY DEF Record
  <2>3. Record(log, i) = Record(other, k)
    BY <1>5, <1>6
  <2> QED
    BY <2>1, <2>2, <2>3, Zenon
<1>8. /\ past \in Seq(Events) /\ Len(past) = i /\ Len(past) = k
      /\ \A n \in 1 .. i : past[n] = log[n] /\ past[n] = other[n]
  BY <1>1, <1>7
<1>9. IsPrefix(past, other)
  BY <1>8, PrefixMeans
<1> QED
  BY <1>1, <1>2, <1>7, <1>8, <1>9 DEF Shares

(* Equal records accept the same.                                           *)
LEMMA SameAccepted ==
  ASSUME NEW w, Sound(w), NEW u, Sound(u), Records(w.log) = Records(u.log)
  PROVE  Accepted(w) \subseteq Accepted(u)
<1> SUFFICES ASSUME NEW e \in Accepted(w) PROVE e \in Accepted(u)
  OBVIOUS
<1>1. PICK i \in 1 .. Len(w.log) : w.log[i] = e /\ e.persisted /\ e.decision = "ACCEPTED"
  BY SoundLog DEF Accepted, ToSet
<1>2. i \in 1 .. Len(u.log) /\ w.log[i] = u.log[i]
  BY <1>1, SameRecords DEF Shares
<1> QED
  BY <1>1, <1>2, SoundLog DEF Accepted, ToSet

(* The last stored event is the m-th.                                       *)
EndsAt(log, m) ==
  /\ m \in 0 .. Len(log)
  /\ \A i \in 1 .. Len(log) : log[i].persisted => i <= m
  /\ m > 0 => log[m].persisted
  /\ History(log) = SubSeq(log, 1, m) /\ History(log) \in Seq(Events) /\ Len(History(log)) = m
  /\ \A i \in 1 .. m : History(log)[i] = log[i]

(* A log has a last stored event, or none.                                  *)
LEMMA HistoryEnds == ASSUME NEW w, Sound(w) PROVE \E m \in 0 .. Len(w.log) : EndsAt(w.log, m)
<1>1. PICK log \in Seq(Events) : log = w.log
  BY SoundLog
<1>2. PICK T : T = {0} \cup {i \in 1 .. Len(log) : log[i].persisted}
  OBVIOUS
<1>3. T \subseteq 0 .. Len(log) /\ T # {}
  BY <1>1, <1>2
<1>4. Max(T) \in T /\ \A y \in T : Max(T) >= y
  <2>0. PICK k \in Nat : k = Len(log)
    BY <1>1
  <2>1. \E x \in T : \A y \in T : x >= y
    BY <1>3, <2>0, GreatestNatural
  <2> QED
    BY <2>1 DEF Max
<1>5. PICK m : m = Max(T)
  OBVIOUS
<1>6. /\ m \in 0 .. Len(log) /\ (m > 0 => log[m].persisted)
      /\ \A i \in 1 .. Len(log) : log[i].persisted => i <= m
  BY <1>2, <1>3, <1>4, <1>5
<1>7. PICK past : past = SubSeq(log, 1, m)
  OBVIOUS
<1>8. past \in Seq(Events) /\ Len(past) = m /\ \A i \in 1 .. m : past[i] = log[i]
  BY <1>1, <1>6, <1>7
<1>9. History(log) = past
  BY <1>2, <1>5, <1>7 DEF History
<1> QED
  BY <1>1, <1>6, <1>7, <1>8, <1>9 DEF EndsAt

(* Equal records come from logs that agree up to their last stored event:   *)
(* each record's hash covers everything before it.                          *)
LEMMA SameHistory ==
  ASSUME NEW w, Sound(w), NEW u, Sound(u), Records(w.log) = Records(u.log)
  PROVE  IsPrefix(History(w.log), u.log)
<1>1. PICK m \in 0 .. Len(w.log) : EndsAt(w.log, m)
  BY HistoryEnds
<1>2. PICK past \in Seq(Events) : past = History(w.log) /\ Len(past) = m
  BY <1>1 DEF EndsAt
<1>3. CASE m = 0
  <2>1. PICK other \in Seq(Events) : other = u.log
    BY SoundLog
  <2>2. Len(past) <= Len(other) /\ \A i \in 1 .. Len(past) : past[i] = other[i]
    BY <1>2, <1>3, <2>1
  <2> QED
    BY <1>2, <2>1, <2>2, PrefixMeans
<1>4. CASE m # 0
  <2>1. m \in 1 .. Len(w.log) /\ w.log[m].persisted
    BY <1>1, <1>4, SoundLog DEF EndsAt
  <2>2. Shares(w, u, m)
    BY <2>1, SameRecords
  <2> QED
    BY <1>1, <2>2 DEF Shares, EndsAt
<1> QED
  BY <1>3, <1>4

(* What a verified commit leaves exports to the bundle and verifies.        *)
LEMMA VerifiedCommit ==
  ASSUME NEW bundle, NEW w, NEW artifacts, NEW t, NEW run,
         run = CommitWorkspace(bundle, w, artifacts, t), Verified(run), run \in RunFields
  PROVE  WorkspaceVerifies(run.w, artifacts) /\ Export(run.w) = bundle
<1> DEFINE start == [w |-> Prepared(w, bundle), failed |-> bundle.bootstrap \notin Prepared(w, bundle).policies,
                     imported |-> 0, replayed |-> 0, conflicts |-> <<>>]
<1>1. PICK all : all = Replayed(start, bundle.records, Ids, artifacts, t)
  OBVIOUS
<1>2. run = IF ~all.failed /\ all.conflicts = <<>>
               /\ ~(WorkspaceVerifies(all.w, artifacts) /\ Export(all.w) = bundle)
            THEN Failed(all) ELSE all
  BY <1>1 DEF CommitWorkspace, Confirmed
<1> HIDE DEF start
<1>3. ~run.failed /\ run.conflicts = <<>>
  BY DEF Verified
<1>4. ASSUME run = Failed(all) PROVE run.failed
  <2>1. PICK x : x = [all EXCEPT !.failed = TRUE] /\ run = x
    BY <1>4 DEF Failed
  <2>2. DOMAIN run = DOMAIN all
    BY <2>1
  <2>3. "failed" \in DOMAIN run
    BY DEF RunFields
  <2> QED
    BY <2>1, <2>2, <2>3
<1>5. run # Failed(all)
  BY <1>3, <1>4
<1>6. /\ ~(~all.failed /\ all.conflicts = <<>>
           /\ ~(WorkspaceVerifies(all.w, artifacts) /\ Export(all.w) = bundle))
      /\ run = all
  BY <1>2, <1>5, Zenon
<1> QED
  BY <1>3, <1>6, Zenon

(* An import that reports verified projections leaves the target with the   *)
(* exporter's history, policy and evidence                                  *)
(* (VerifiedImportReproducesSource).                                        *)
THEOREM VerifiedImportsReproduce == Spec => VerifiedImportReproducesSource
<1> DEFINE Reproduces ==
      importer.phase = "commit" /\ importer'.outcome = "verified" =>
        /\ IsPrefix(History(importer.origin.log), ws'["target"].log)
        /\ ws'["target"].active = importer.origin.active
        /\ Accepted(ws["target"])' = Accepted(importer.origin)
        /\ WorkspaceVerifies(ws["target"], store["target"])'
<1>1. ASSUME ExchangeInv, Next PROVE Reproduces
  <2> SUFFICES ASSUME importer.phase = "commit", importer'.outcome = "verified" PROVE Reproduces
    OBVIOUS
  <2>1. PICK origin : /\ origin = importer.origin /\ Sound(origin) /\ origin.active # NoPolicy
                      /\ importer.bundle = Export(origin) /\ importer.outcome = "none"
    BY <1>1 DEF ExchangeInv, ImportHolds
  <2>2. CommitImport
    <3>1. importer' # importer
      BY <2>1
    <3>2. /\ ~Tick
          /\ ~\E side \in Sides, p \in Policies : InitCommand(side, p)
          /\ ~\E side \in Sides, a \in Artifacts : PutArtifact(side, a)
          /\ ~\E side \in Sides, p \in Policies, id \in Ids, body \in Bodies :
                Submit(side, p, id, body)
      <4>1. Tick => importer' = importer
        BY DEF Tick
      <4>2. ASSUME NEW side \in Sides, NEW p \in Policies, InitCommand(side, p)
            PROVE  importer' = importer
        BY <4>2 DEF InitCommand
      <4>3. ASSUME NEW side \in Sides, NEW a \in Artifacts, PutArtifact(side, a)
            PROVE  importer' = importer
        BY <4>3 DEF PutArtifact
      <4>4. ASSUME NEW side \in Sides, NEW p \in Policies, NEW id \in Ids, NEW body \in Bodies,
                   Submit(side, p, id, body)
            PROVE  importer' = importer
        BY <4>4 DEF Submit
      <4> QED
        BY <3>1, <4>1, <4>2, <4>3, <4>4
    <3>3. /\ ~StartImport /\ ~PreflightImport /\ ~CommitConflicts
          /\ ~\E a \in Artifacts : TransferArtifact(a)
      <4>1. StartImport => importer.phase = "idle"
        BY DEF StartImport
      <4>2. CommitConflicts => importer.phase = "conflicts"
        BY DEF CommitConflicts
      <4>3. PreflightImport => importer.phase = "read"
        BY DEF PreflightImport
      <4>4. ASSUME NEW a \in Artifacts, TransferArtifact(a) PROVE importer'.outcome = "none"
        <5>1. PICK old : /\ old = importer /\ old.outcome = "none"
                         /\ DOMAIN old = {"phase", "bundle", "origin", "expected", "created",
                                          "left", "outcome"}
          BY <1>1, <2>1 DEF ExchangeInv, ImportHolds
        <5>2. PICK left, created : importer' = [old EXCEPT !.left = left, !.created = created]
          BY <4>4, <5>1 DEF TransferArtifact
        <5> QED
          BY <5>1, <5>2
      <4> QED
        BY <4>1, <4>2, <4>3, <4>4
    <3>4. ~ImporterCrash
      BY DEF ImporterCrash, Idle
    <3> QED
      BY <1>1, <3>2, <3>3, <3>4, Zenon DEF Next
  <2>3. PICK w : w = ws["target"] /\ Sound(w)
    BY <1>1 DEF ExchangeInv, Sides
  <2>4. PICK bundle : bundle = importer.bundle /\ bundle = Export(origin)
    BY <2>1
  <2>5. PICK artifacts : artifacts = store["target"]
    OBVIOUS
  <2>6. PICK t \in Times : t = now
    BY <1>1 DEF ExchangeInv, TypeOK, Times
  <2>7. PICK run : run = CommitWorkspace(bundle, w, artifacts, t)
    OBVIOUS
  <2>8. PICK ok : ok = (Verified(run) /\ run.imported = importer.expected.imported
                                      /\ run.replayed = importer.expected.replayed)
    OBVIOUS
  <2>9. /\ ws' = [ws EXCEPT !["target"] = IF ok THEN run.w ELSE @]
        /\ store' = [store EXCEPT !["target"] = IF ok THEN @ ELSE @ \ importer.created]
        /\ importer' = Idle(IF ok THEN "verified" ELSE "failed")
    BY <2>2, <2>3, <2>4, <2>5, <2>6, <2>7, <2>8, Zenon DEF CommitImport
  <2>10. ok
    BY <2>9 DEF Idle
  <2>11. /\ ws' = [ws EXCEPT !["target"] = run.w] /\ store' = [store EXCEPT !["target"] = artifacts]
    BY <2>5, <2>9, <2>10
  <2>12. ws'["target"] = run.w /\ store'["target"] = artifacts
    BY <1>1, <2>11 DEF ExchangeInv, TypeOK, Sides
  <2>13. bundle.records = Records(origin.log) /\ bundle.records \in Seq(ExportedRecords)
         /\ bundle.bootstrap \in Policies /\ bundle.active = origin.active
    BY <2>1, <2>4, BundleTyped
  <2>14. run \in ReplaysFrom(w.log)
    BY <2>3, <2>6, <2>7, <2>13, CommitStays
  <2>15. run \in RunFields /\ Sound(run.w)
    BY <2>14 DEF ReplaysFrom
  <2>16. Verified(run)
    BY <2>8, <2>10
  <2>17. WorkspaceVerifies(run.w, artifacts) /\ Export(run.w) = bundle
    BY <2>7, <2>15, <2>16, VerifiedCommit
  <2>18. PICK u : u = run.w /\ Sound(u) /\ Export(u) = bundle
    BY <2>15, <2>17
  <2>19. Records(u.log) = bundle.records /\ u.active = bundle.active
    BY <2>18 DEF Export
  <2>20. IsPrefix(History(origin.log), u.log)
    BY <2>1, <2>13, <2>18, <2>19, SameHistory
  <2>21. Accepted(u) = Accepted(origin)
    <3>1. Records(u.log) = Records(origin.log)
      BY <2>13, <2>19
    <3>2. Accepted(u) \subseteq Accepted(origin)
      BY <2>1, <2>18, <3>1, SameAccepted
    <3>3. Accepted(origin) \subseteq Accepted(u)
      BY <2>1, <2>18, <3>1, SameAccepted
    <3> QED
      BY <3>2, <3>3, Zenon
  <2>22. Accepted(ws["target"])' = Accepted(u)
    BY <2>12, <2>18
  <2>23. WorkspaceVerifies(ws["target"], store["target"])'
    BY <2>12, <2>17
  <2> QED
    BY <2>1, <2>12, <2>13, <2>18, <2>19, <2>20, <2>21, <2>22, <2>23
<1>2. ExchangeInv /\ [Next]_vars => ExchangeInv'
  BY ExchangeStep
<1>3. ExchangeInv /\ [Next]_vars => [Reproduces]_vars
  BY <1>1
<1> QED
  BY ExchangeInit, <1>2, <1>3, PTL DEF Spec, VerifiedImportReproducesSource

-----------------------------------------------------------------------------
(* A bundle imported again.                                                 *)

Held(w) ==
  {run \in RunFields : run.w = w /\ run.failed = FALSE /\ run.imported = 0 /\ run.conflicts = <<>>}

(* A record this workspace exports is found again.                          *)
LEMMA HeldRecordReplays ==
  ASSUME NEW w, Sound(w), NEW artifacts, WorkspaceVerifies(w, artifacts), NEW run \in Held(w),
         NEW i \in 1 .. Len(w.log), w.log[i].persisted, NEW r, r = Record(w.log, i), NEW t
  PROVE  ReplayRecord(run, r, artifacts, t) \in Held(w)
<1> DEFINE same == {e \in Stored(run.w, r.id) : e.body = r.body}
<1>1. PICK e : e = w.log[i] /\ e.persisted /\ e \in ToSet(w.log)
  BY SoundLog DEF ToSet
<1>2. e.id = r.id /\ e.body = r.body /\ e.decision = r.expected
  BY <1>1 DEF Record
<1>3. run.w = w /\ run.failed = FALSE
  BY DEF Held
<1>4. e \in same
  BY <1>1, <1>2, <1>3 DEF Stored
<1>5. Reproduced(run.w, r)
  BY <1>3 DEF Reproduced
<1>6. \E x \in same : x.decision = r.expected /\ Reproduced(run.w, r)
  BY <1>2, <1>4, <1>5
<1> HIDE DEF same
<1>7. ReplayRecord(run, r, artifacts, t) = [run EXCEPT !.replayed = @ + 1]
  BY <1>3, <1>6, Zenon DEF ReplayRecord, same
<1>8. [run EXCEPT !.replayed = @ + 1] \in Held(w)
  <2>1. run \in RunFields
    BY DEF Held
  <2>2. PICK n \in Nat : n = run.replayed + 1
    BY <2>1 DEF RunFields
  <2>3. PICK x : x = [run EXCEPT !.replayed = n]
    OBVIOUS
  <2>4. x \in RunFields /\ x.w = run.w /\ x.failed = run.failed /\ x.imported = run.imported
        /\ x.conflicts = run.conflicts
    BY <2>1, <2>3 DEF RunFields
  <2> QED
    BY <2>2, <2>3, <2>4 DEF Held
<1> QED
  BY <1>7, <1>8

(* A workspace that imports its own export replays every record and changes *)
(* nothing.                                                                 *)
LEMMA HeldBundleReplays ==
  ASSUME NEW w, Sound(w), w.active # NoPolicy, NEW artifacts, WorkspaceVerifies(w, artifacts),
         NEW bundle, bundle = Export(w), NEW t,
         NEW run, run = CommitWorkspace(bundle, w, artifacts, t)
  PROVE  run \in Held(w)
<1>1. /\ bundle.records = Records(w.log) /\ bundle.records \in Seq(ExportedRecords)
      /\ bundle.bootstrap \in w.policies
  BY BundleTyped
<1>2. Prepared(w, bundle) = w
  BY DEF Prepared
<1>3. PICK start : start = [w |-> w, failed |-> FALSE, imported |-> 0, replayed |-> 0,
                            conflicts |-> <<>>]
  OBVIOUS
<1>4. PICK S : S = Held(w)
  OBVIOUS
<1>5. start \in S
  <2>1. start \in RunFields
    BY <1>3 DEF RunFields, Sound
  <2> QED
    BY <1>3, <1>4, <2>1 DEF Held
<1>6. PICK records : records = bundle.records /\ records \in Seq(ExportedRecords)
  BY <1>1
<1>7. \A x \in S, n \in 1 .. Len(records) : ReplayRecord(x, records[n], artifacts, t) \in S
  <2> SUFFICES ASSUME NEW x \in S, NEW n \in 1 .. Len(records)
               PROVE  ReplayRecord(x, records[n], artifacts, t) \in S
    OBVIOUS
  <2>1. KeptOf(records, w.log, Len(w.log))
    BY <1>1, <1>6, RecordsAreStored
  <2>2. PICK i \in 1 .. Len(w.log) : w.log[i].persisted /\ records[n] = Record(w.log, i)
    BY <2>1 DEF KeptOf
  <2>3. PICK r : r = records[n] /\ r = Record(w.log, i)
    BY <2>2
  <2> QED
    BY <1>4, <2>2, <2>3, HeldRecordReplays
<1>8. PICK f \in [0 .. Len(records) -> S] : Replays(f, start, records, Ids, artifacts, t)
  <2>1. Len(records) \in Nat
    BY <1>6
  <2> QED
    BY <1>5, <1>7, <2>1, ReplayedRuns
<1>9. PICK all : all = Replayed(start, records, Ids, artifacts, t) /\ all \in S
  <2>1. Len(records) \in 0 .. Len(records)
    BY <1>6
  <2> QED
    BY <1>8, <2>1 DEF Replays
<1>10. (bundle.bootstrap \notin Prepared(w, bundle).policies) = FALSE
  BY <1>1, <1>2
<1>11. start = [w |-> Prepared(w, bundle), failed |-> bundle.bootstrap \notin Prepared(w, bundle).policies,
                imported |-> 0, replayed |-> 0, conflicts |-> <<>>]
  BY <1>2, <1>3, <1>10, Zenon
<1>12. run = IF ~all.failed /\ all.conflicts = <<>>
                /\ ~(WorkspaceVerifies(all.w, artifacts) /\ Export(all.w) = bundle)
             THEN Failed(all) ELSE all
  BY <1>6, <1>9, <1>11, Zenon DEF CommitWorkspace, Confirmed
<1>13. all.w = w
  BY <1>4, <1>9 DEF Held
<1>14. run = all
  BY <1>12, <1>13, Zenon
<1> QED
  BY <1>4, <1>9, <1>14

-----------------------------------------------------------------------------
(* What a log says of the workspace as each of its events found it.         *)

(* The policy that governed after n events.                                 *)
ActiveAt(w, n) == IF n < Len(w.log) THEN w.log[n + 1].policy ELSE w.active
AcceptedMove(e) == e.persisted /\ e.decision = "ACCEPTED" /\ e.body \in Transitions
RegisteredAt(w, n) ==
  {ActiveAt(w, 0)} \cup
  {p \in Policies : \E i \in 1 .. n : AcceptedMove(w.log[i]) /\ w.log[i].body.candidate = p}
HadEvidence(log, n, a) ==
  \E j \in 1 .. n : /\ log[j].persisted /\ log[j].decision = "ACCEPTED"
                    /\ log[j].body \in Evidence /\ log[j].body.artifact = a

(* What the i-th event decides when its client is configured with the       *)
(* active policy and its artifact is there.                                 *)
DecisionAt(log, i) ==
  IF log[i].body \in Evidence
  THEN IF HadEvidence(log, i - 1, log[i].body.artifact) THEN "ENTITY_ALREADY_EXISTS" ELSE "ACCEPTED"
  ELSE IF log[i].body.prior # log[i].policy THEN "POLICY_HASH_MISMATCH" ELSE "ACCEPTED"
DecidedAlone(log, i) ==
  /\ \A j \in 1 .. i - 1 : log[j].persisted => log[j].id # log[i].id
  /\ log[i].configured = log[i].policy /\ log[i].decision # "EVIDENCE_HASH_MISMATCH" =>
       log[i].decision = DecisionAt(log, i)

(* The log of a workspace that only its own clients wrote accounts for what *)
(* it holds.                                                                *)
Retraced(w) ==
  /\ \A i \in 1 .. Len(w.log) :
       /\ w.log[i].persisted => DecidedAlone(w.log, i)
       /\ ActiveAt(w, i) = IF AcceptedMove(w.log[i]) THEN w.log[i].body.candidate
                           ELSE w.log[i].policy
  /\ w.active # NoPolicy => w.policies = RegisteredAt(w, Len(w.log))

(* A new workspace is accounted for by its log.                             *)
LEMMA RetracedFresh ==
  ASSUME NEW p \in Policies, NEW w, w = [log |-> <<>>, active |-> p, policies |-> {p}]
  PROVE  Retraced(w)
<1>1. w.log = <<>> /\ w.active = p /\ w.policies = {p}
  OBVIOUS
<1>2. Len(w.log) = 0
  BY <1>1
<1>3. ActiveAt(w, 0) = p
  BY <1>1, <1>2 DEF ActiveAt
<1>4. RegisteredAt(w, Len(w.log)) = {p}
  BY <1>2, <1>3 DEF RegisteredAt
<1>5. \A i \in 1 .. Len(w.log) : FALSE
  BY <1>2
<1> QED
  BY <1>1, <1>4, <1>5, Zenon DEF Retraced

(* The events that were there already say what they said.                   *)
LEMMA RetracedKept ==
  ASSUME NEW w, Sound(w), NEW s, NEW e \in Events, Adds(w, s, e), e.policy = w.active
  PROVE  /\ Len(s.log) = Len(w.log) + 1 /\ s.log[Len(w.log) + 1] = e
         /\ \A i \in 1 .. Len(w.log) : s.log[i] = w.log[i]
         /\ \A n \in 0 .. Len(w.log) : ActiveAt(s, n) = ActiveAt(w, n)
<1>1. PICK log \in Seq(Events) : log = w.log
  BY SoundLog
<1>2. PICK grown : grown = Append(log, e) /\ grown = s.log
  BY <1>1 DEF Adds
<1>3. /\ Len(grown) = Len(log) + 1 /\ grown[Len(log) + 1] = e /\ Len(log) \in Nat
      /\ \A i \in 1 .. Len(log) : grown[i] = log[i]
  <2>1. /\ Len(Append(log, e)) = Len(log) + 1 /\ Append(log, e)[Len(log) + 1] = e
        /\ Len(log) \in Nat /\ \A i \in 1 .. Len(log) : Append(log, e)[i] = log[i]
    OBVIOUS
  <2> QED
    BY <1>2, <2>1
<1>4. ASSUME NEW n \in 0 .. Len(log) PROVE ActiveAt(s, n) = ActiveAt(w, n)
  <2>1. CASE n = Len(log)
    BY <1>1, <1>2, <1>3, <2>1 DEF ActiveAt
  <2>2. CASE n < Len(log)
    <3>1. n + 1 \in 1 .. Len(log)
      BY <1>3, <2>2
    <3> QED
      BY <1>1, <1>2, <1>3, <2>2, <3>1 DEF ActiveAt
  <2> QED
    BY <1>3, <2>1, <2>2
<1> QED
  BY <1>1, <1>2, <1>3, <1>4

(* What evidence a log had accepted at a place depends on the places before *)
(* it.                                                                      *)
LEMMA EvidenceKept ==
  ASSUME NEW log, NEW other, NEW n \in Nat, \A i \in 1 .. n : log[i] = other[i], NEW a
  PROVE  HadEvidence(log, n, a) <=> HadEvidence(other, n, a)
BY DEF HadEvidence

(* So does how it decided.                                                  *)
LEMMA DecisionKept ==
  ASSUME NEW log, NEW other, NEW k \in Nat, \A i \in 1 .. k : log[i] = other[i],
         NEW i \in 1 .. k, DecidedAlone(log, i)
  PROVE  DecidedAlone(other, i)
<1>1. other[i] = log[i] /\ \A j \in 1 .. i - 1 : other[j] = log[j]
  OBVIOUS
<1>2. \A a : HadEvidence(log, i - 1, a) <=> HadEvidence(other, i - 1, a)
  BY <1>1, EvidenceKept
<1>3. DecisionAt(other, i) = DecisionAt(log, i)
  <2>1. HadEvidence(log, i - 1, log[i].body.artifact) <=> HadEvidence(other, i - 1, log[i].body.artifact)
    BY <1>2
  <2> QED
    BY <1>1, <2>1 DEF DecisionAt
<1> QED
  BY <1>1, <1>3 DEF DecidedAlone

(* A logged decision leaves the workspace accounted for by its log.         *)
LEMMA RetracedNext ==
  ASSUME NEW w, Sound(w), w.active # NoPolicy, Retraced(w), NEW s, NEW e \in Events, Adds(w, s, e),
         e.policy = w.active, NEW n, n = Len(w.log) + 1, e.persisted => DecidedAlone(s.log, n),
         s.active = IF AcceptedMove(e) THEN e.body.candidate ELSE w.active,
         s.policies = IF AcceptedMove(e) THEN w.policies \cup {e.body.candidate} ELSE w.policies
  PROVE  Retraced(s)
<1>0. Len(w.log) \in Nat /\ n \in Nat
  BY SoundLog
<1>1. /\ Len(s.log) = n /\ s.log[n] = e
      /\ \A i \in 1 .. n - 1 : s.log[i] = w.log[i]
      /\ \A i \in 0 .. n - 1 : ActiveAt(s, i) = ActiveAt(w, i)
  BY <1>0, RetracedKept
<1>2. ASSUME NEW i \in 1 .. n
      PROVE  /\ s.log[i].persisted => DecidedAlone(s.log, i)
             /\ ActiveAt(s, i) = IF AcceptedMove(s.log[i]) THEN s.log[i].body.candidate
                                 ELSE s.log[i].policy
  <2>1. CASE i = n
    <3>1. ActiveAt(s, i) = s.active
      BY <1>0, <1>1, <2>1 DEF ActiveAt
    <3> QED
      BY <1>1, <2>1, <3>1
  <2>2. CASE i \in 1 .. n - 1
    <3>1. /\ w.log[i].persisted => DecidedAlone(w.log, i)
          /\ ActiveAt(w, i) = IF AcceptedMove(w.log[i]) THEN w.log[i].body.candidate
                              ELSE w.log[i].policy
      BY <1>0, <2>2 DEF Retraced
    <3>2. s.log[i] = w.log[i] /\ ActiveAt(s, i) = ActiveAt(w, i)
      BY <1>0, <1>1, <2>2
    <3>3. DecidedAlone(w.log, i) => DecidedAlone(s.log, i)
      <4>1. PICK k \in Nat : k = n - 1
        BY <1>0
      <4>2. \A j \in 1 .. k : w.log[j] = s.log[j]
        BY <1>1, <4>1
      <4> QED
        BY <2>2, <4>1, <4>2, DecisionKept
    <3> QED
      BY <3>1, <3>2, <3>3
  <2> QED
    BY <1>0, <2>1, <2>2
<1>3. s.policies = RegisteredAt(s, n)
  <2>1. w.policies = RegisteredAt(w, n - 1)
    BY <1>0 DEF Retraced
  <2>2. ActiveAt(s, 0) = ActiveAt(w, 0)
    BY <1>0, <1>1
  <2>3. AcceptedMove(e) => e.body.candidate \in Policies
    BY BodiesApart DEF AcceptedMove
  <2>4. ASSUME NEW p \in Policies
        PROVE  (\E i \in 1 .. n : AcceptedMove(s.log[i]) /\ s.log[i].body.candidate = p) <=>
               \/ \E i \in 1 .. n - 1 : AcceptedMove(w.log[i]) /\ w.log[i].body.candidate = p
               \/ AcceptedMove(e) /\ e.body.candidate = p
    <3>1. ASSUME NEW i \in 1 .. n, AcceptedMove(s.log[i]) /\ s.log[i].body.candidate = p
          PROVE  \/ \E j \in 1 .. n - 1 : AcceptedMove(w.log[j]) /\ w.log[j].body.candidate = p
                 \/ AcceptedMove(e) /\ e.body.candidate = p
      <4>1. CASE i = n
        BY <1>1, <3>1, <4>1
      <4>2. CASE i \in 1 .. n - 1
        <5>1. s.log[i] = w.log[i]
          BY <1>1, <4>2
        <5> QED
          BY <3>1, <4>2, <5>1
      <4> QED
        BY <1>0, <4>1, <4>2
    <3>2. ASSUME NEW i \in 1 .. n - 1, AcceptedMove(w.log[i]) /\ w.log[i].body.candidate = p
          PROVE  \E j \in 1 .. n : AcceptedMove(s.log[j]) /\ s.log[j].body.candidate = p
      <4>1. s.log[i] = w.log[i] /\ i \in 1 .. n
        BY <1>0, <1>1
      <4> QED
        BY <3>2, <4>1
    <3>3. n \in 1 .. n
      BY <1>0
    <3> QED
      BY <1>1, <3>1, <3>2, <3>3
  <2> QED
    BY <2>1, <2>2, <2>3, <2>4 DEF RegisteredAt
<1> QED
  BY <1>1, <1>2, <1>3 DEF Retraced

(* A decided submission is accounted for.                                   *)
LEMMA RetracedSettled ==
  ASSUME NEW w, Sound(w), w.active # NoPolicy, Retraced(w), NEW artifacts, NEW configured \in Policies,
         NEW id \in Ids, Stored(w, id) = {}, NEW body \in Bodies, NEW t \in Times,
         NEW s, s = Settled(w, artifacts, configured, id, body, t)
  PROVE  Retraced(s)
<1>1. PICK code : code = Decide(w, artifacts, configured, body)
  OBVIOUS
<1>2. /\ Sound(s) /\ Moves(w, s, code, body)
      /\ \E e \in Events : Adds(w, s, e) /\ AsDecided(e, w, s, configured, id, body, code, t)
  BY <1>1, SettledSound
<1>3. PICK e \in Events : Adds(w, s, e) /\ AsDecided(e, w, s, configured, id, body, code, t)
  BY <1>2
<1>4. /\ e.persisted = TRUE /\ e.id = id /\ e.body = body /\ e.decision = code
      /\ e.policy = w.active
      /\ e.configured = IF configured \in s.policies THEN configured ELSE NoPolicy
  BY <1>3 DEF AsDecided
<1>5. PICK n : n = Len(w.log) + 1 /\ n \in Nat /\ Len(w.log) \in Nat
  <2>1. Len(w.log) \in Nat
    BY SoundLog
  <2> QED
    BY <2>1, SMTT(30)
<1>6. /\ Len(s.log) = n /\ s.log[n] = e /\ \A i \in 1 .. n - 1 : s.log[i] = w.log[i]
  BY <1>3, <1>4, <1>5, RetracedKept
<1>7. /\ s.active = IF AcceptedMove(e) THEN e.body.candidate ELSE w.active
      /\ s.policies = IF AcceptedMove(e) THEN w.policies \cup {e.body.candidate} ELSE w.policies
  BY <1>2, <1>4 DEF Moves, AcceptedMove
<1>8. DecidedAlone(s.log, n)
  <2>1. ASSUME NEW j \in 1 .. n - 1, s.log[j].persisted PROVE s.log[j].id # id
    <3>1. w.log[j] \in ToSet(w.log) /\ w.log[j] = s.log[j]
      BY <1>5, <1>6, SoundLog DEF ToSet
    <3> QED
      BY <2>1, <3>1 DEF Stored
  <2>2. ASSUME e.configured = e.policy, e.decision # "EVIDENCE_HASH_MISMATCH"
        PROVE  e.decision = DecisionAt(s.log, n)
    <3>1. configured = w.active
      BY <1>4, <2>2
    <3>2. ASSUME NEW a PROVE HasEvidence(w, a) <=> HadEvidence(s.log, n - 1, a)
      <4>1. HasEvidence(w, a) <=> \E j \in 1 .. n - 1 :
              /\ w.log[j].persisted /\ w.log[j].decision = "ACCEPTED"
              /\ w.log[j].body \in Evidence /\ w.log[j].body.artifact = a
        BY <1>5, SoundLog DEF HasEvidence, Accepted, ToSet
      <4> QED
        BY <1>6, <4>1 DEF HadEvidence
    <3>3. s.log[n].body = body /\ s.log[n].policy = w.active
      BY <1>4, <1>6
    <3>4. code # "EVIDENCE_HASH_MISMATCH"
      BY <1>4, <2>2
    <3>5. code = IF body \in Evidence
                 THEN IF HasEvidence(w, body.artifact) THEN "ENTITY_ALREADY_EXISTS" ELSE "ACCEPTED"
                 ELSE IF body.prior # w.active THEN "POLICY_HASH_MISMATCH" ELSE "ACCEPTED"
      BY <1>1, <3>1, <3>4, Zenon DEF Decide
    <3>6. HasEvidence(w, body.artifact) <=> HadEvidence(s.log, n - 1, body.artifact)
      BY <3>2
    <3>7. DecisionAt(s.log, n) = code
      BY <3>3, <3>5, <3>6 DEF DecisionAt
    <3> QED
      BY <1>4, <3>7
  <2> QED
    BY <1>4, <1>6, <2>1, <2>2 DEF DecidedAlone
<1> QED
  BY <1>3, <1>4, <1>5, <1>7, <1>8, RetracedNext

(* So does a logged conflict.                                               *)
LEMMA RetracedConflicted ==
  ASSUME NEW w, Sound(w), w.active # NoPolicy, Retraced(w), NEW configured,
         NEW id \in Ids, NEW body \in Bodies, NEW t \in Times,
         NEW s, s = Conflicted(w, configured, id, body, t)
  PROVE  Retraced(s)
<1>1. body \in Bodies \cup {InvalidBody}
  OBVIOUS
<1>2. /\ s.active = w.active /\ s.policies = w.policies
      /\ \E e \in Events : Adds(w, s, e) /\ AsConflicted(e, w)
  BY <1>1, ConflictedSound
<1>3. PICK e \in Events : Adds(w, s, e) /\ e.persisted = FALSE /\ e.policy = w.active
  BY <1>2 DEF AsConflicted
<1>4. ~AcceptedMove(e)
  BY <1>3 DEF AcceptedMove
<1>5. PICK n : n = Len(w.log) + 1
  OBVIOUS
<1> QED
  BY <1>2, <1>3, <1>4, <1>5, RetracedNext

SourceRetraced == Retraced(ws["source"])

(* The source's log accounts for its policies and decisions at all times.   *)
LEMMA RetracedStep ==
  ASSUME ExchangeInv, SourceRetraced, [Next]_vars
  PROVE  SourceRetraced'
<1> SUFFICES ASSUME ws'["source"] # ws["source"] PROVE Retraced(ws'["source"])
  BY DEF SourceRetraced
<1>1. ws \in [Sides -> Workspaces] /\ "source" \in Sides /\ "target" \in Sides
  BY DEF ExchangeInv, TypeOK, Sides
<1>2. ws' # ws
  OBVIOUS
<1>3. /\ ~UNCHANGED vars /\ ~Tick /\ ~StartImport /\ ~PreflightImport /\ ~ImporterCrash
      /\ ~\E side \in Sides, a \in Artifacts : PutArtifact(side, a)
      /\ ~\E a \in Artifacts : TransferArtifact(a)
  BY <1>2
     DEF vars, Tick, StartImport, PreflightImport, TransferArtifact, ImporterCrash, PutArtifact
<1>4. ~CommitConflicts /\ ~CommitImport
  <2>1. ASSUME NEW w, ws' = [ws EXCEPT !["target"] = w] PROVE FALSE
    BY <1>1, <2>1
  <2>2. CommitConflicts => \E w : ws' = [ws EXCEPT !["target"] = w]
    BY DEF CommitConflicts
  <2>3. CommitImport => \E w : ws' = [ws EXCEPT !["target"] = w]
    BY DEF CommitImport
  <2> QED
    BY <2>1, <2>2, <2>3
<1>5. ASSUME NEW side \in Sides, NEW p \in Policies, InitCommand(side, p)
      PROVE  Retraced(ws'["source"])
  <2>0. side = "source"
    BY <1>1, <1>5 DEF InitCommand
  <2>1. PICK old : old = ws[side]
    OBVIOUS
  <2>2. PICK w : w = [old EXCEPT !.active = p, !.policies = {p}]
    OBVIOUS
  <2>3. old = [log |-> <<>>, active |-> NoPolicy, policies |-> {}]
    BY <1>5, <2>1 DEF InitCommand, EmptyWorkspace
  <2>4. w = [log |-> <<>>, active |-> p, policies |-> {p}]
    BY <2>2, <2>3
  <2>5. ws' = [ws EXCEPT ![side] = w]
    BY <1>5, <2>1, <2>2 DEF InitCommand
  <2>6. ws'["source"] = w
    BY <1>1, <2>0, <2>5
  <2> QED
    BY <2>4, <2>6, RetracedFresh
<1>6. ASSUME NEW side \in Sides, NEW configured \in Policies, NEW id \in Ids, NEW body \in Bodies,
             Submit(side, configured, id, body)
      PROVE  Retraced(ws'["source"])
  <2>0. side = "source"
    BY <1>1, <1>6 DEF Submit
  <2>1. PICK w : w = ws[side] /\ Sound(w) /\ configured \in w.policies /\ Retraced(w)
    BY <1>6, <2>0 DEF Submit, ExchangeInv, SourceRetraced
  <2>2. w.active # NoPolicy
    BY <2>1 DEF Sound, EmptyWorkspace
  <2>3. PICK t \in Times : t = now
    BY DEF ExchangeInv, TypeOK, Times
  <2>4. PICK artifacts : artifacts = store[side]
    OBVIOUS
  <2>5. PICK s : s = Settled(w, artifacts, configured, id, body, t)
    OBVIOUS
  <2>6. PICK c : c = Conflicted(w, configured, id, body, t)
    OBVIOUS
  <2>7. ws' = [ws EXCEPT ![side] = IF Stored(w, id) = {} THEN s ELSE c]
    BY <1>6, <2>1, <2>3, <2>4, <2>5, <2>6 DEF Submit
  <2>8. ws'["source"] = IF Stored(w, id) = {} THEN s ELSE c
    BY <1>1, <2>0, <2>7
  <2>9. Stored(w, id) = {} => Retraced(s)
    BY <2>1, <2>2, <2>5, RetracedSettled
  <2>10. Retraced(c)
    BY <2>1, <2>2, <2>6, RetracedConflicted
  <2> QED
    BY <2>8, <2>9, <2>10
<1> QED
  BY <1>3, <1>4, <1>5, <1>6 DEF Next

-----------------------------------------------------------------------------
(* What a round trip that is verified went through: every event it wrote is *)
(* as a replay writes it.                                                   *)

Replayable(e, t) ==
  /\ e.persisted /\ e.at = t /\ e.configured = e.policy
  /\ e.decision # "EVIDENCE_HASH_MISMATCH"
GrownByReplay(w, s, t) ==
  /\ Len(s.log) = Len(w.log) + 1
  /\ \A i \in 1 .. Len(w.log) : s.log[i] = w.log[i]
  /\ Replayable(s.log[Len(w.log) + 1], t)
CleanRuns(t) ==
  {run \in ReplaysFrom(<<>>) :
     ~run.failed /\ run.conflicts = <<>> =>
       \A i \in 1 .. Len(run.w.log) : Replayable(run.w.log[i], t)}

(* A settled event that a record is reproduced by is the record's own.      *)
LEMMA SettledReproduced ==
  ASSUME NEW w, Sound(w), w.active # NoPolicy, NEW artifacts, NEW r \in ExportedRecords,
         r.body \in Evidence => r.body.artifact \in artifacts,
         Stored(w, r.id) = {}, NEW t \in Times,
         NEW s, s = Settled(w, artifacts, r.governing, r.id, r.body, t), Reproduced(s, r)
  PROVE  GrownByReplay(w, s, t)
<1>1. r.id \in Ids /\ r.body \in Bodies /\ r.governing \in Policies /\ r.persisted = TRUE
  BY DEF ExportedRecords
<1>2. PICK code : code = Decide(w, artifacts, r.governing, r.body)
  OBVIOUS
<1>3. /\ Sound(s) /\ Moves(w, s, code, r.body)
      /\ \E e \in Events : /\ Adds(w, s, e)
                           /\ AsDecided(e, w, s, r.governing, r.id, r.body, code, t)
  BY <1>1, <1>2, SettledSound
<1>4. PICK e \in Events : /\ Adds(w, s, e)
                          /\ AsDecided(e, w, s, r.governing, r.id, r.body, code, t)
  BY <1>3
<1>5. /\ e.persisted = TRUE /\ e.id = r.id /\ e.decision = code /\ e.policy = w.active /\ e.at = t
      /\ e.configured = IF r.governing \in s.policies THEN r.governing ELSE NoPolicy
  BY <1>4 DEF AsDecided
<1> PICK n : n = Len(w.log) + 1
  OBVIOUS
<1>6. n = Len(w.log) + 1 /\ n \in Nat /\ Len(w.log) \in Nat
  BY SoundLog
<1>7. Len(s.log) = n /\ s.log[n] = e /\ \A i \in 1 .. n - 1 : s.log[i] = w.log[i]
  BY <1>4, <1>5, <1>6, RetracedKept
<1>8. PICK k \in 1 .. n : Record(s.log, k) = r
  BY <1>7 DEF Reproduced
<1>9. s.log[k].id = r.id /\ s.log[k].persisted /\ s.log[k].policy = r.governing
  BY <1>1, <1>8 DEF Record
<1>10. k = n
  <2> SUFFICES ASSUME k # n PROVE FALSE
    OBVIOUS
  <2>1. k \in 1 .. n - 1 /\ s.log[k] = w.log[k]
    BY <1>6, <1>7
  <2>2. w.log[k] \in ToSet(w.log)
    BY <1>6, <2>1, SoundLog DEF ToSet
  <2> QED
    BY <1>9, <2>1, <2>2 DEF Stored
<1>11. r.governing = w.active
  BY <1>5, <1>7, <1>9, <1>10
<1>12. r.governing \in s.policies
  <2>1. w.policies \subseteq s.policies
    BY <1>3 DEF Moves
  <2>2. w.active \in w.policies
    BY DEF Sound
  <2> QED
    BY <1>11, <2>1, <2>2
<1>13. code # "EVIDENCE_HASH_MISMATCH"
  BY <1>2, <1>11 DEF Decide
<1> QED
  BY <1>3, <1>5, <1>6, <1>7, <1>11, <1>12, <1>13 DEF Replayable, GrownByReplay

(* A replay that has not failed or conflicted writes only events that a     *)
(* replay can write.                                                        *)
LEMMA CleanStays ==
  ASSUME NEW artifacts, NEW t \in Times, NEW run \in CleanRuns(t), NEW r \in ExportedRecords,
         r.body \in Evidence => r.body.artifact \in artifacts
  PROVE  ReplayRecord(run, r, artifacts, t) \in CleanRuns(t)
<1>0. run \in ReplaysFrom(<<>>) /\ run \in RunFields
  BY DEF CleanRuns, ReplaysFrom
<1>1. PICK x : x = ReplayRecord(run, r, artifacts, t)
  OBVIOUS
<1>2. x \in ReplaysFrom(<<>>) /\ x \in RunFields
  <2>1. <<>> \in Seq(Events)
    OBVIOUS
  <2>2. x \in ReplaysFrom(<<>>)
    BY <1>0, <1>1, <2>1, ReplayStays
  <2> QED
    BY <2>2 DEF ReplaysFrom
<1> SUFFICES ASSUME ~x.failed, x.conflicts = <<>>
             PROVE  \A i \in 1 .. Len(x.w.log) : Replayable(x.w.log[i], t)
  BY <1>1, <1>2 DEF CleanRuns
<1>3. PICK w : w = run.w /\ Sound(w)
  BY <1>0 DEF ReplaysFrom
<1>4. ~Failed(run).failed => FALSE
  BY <1>0 DEF Failed, RunFields
<1>5. x # Failed(run)
  BY <1>4
<1>6. w.active # NoPolicy
  BY <1>0, <1>1, <1>3, <1>5, NothingReplaysUnbound DEF Sound
<1>7. \A v : \A code \in Codes : x # Conflict(run, r, v, code)
  <2> SUFFICES ASSUME NEW v, NEW code \in Codes, x = Conflict(run, r, v, code) PROVE FALSE
    OBVIOUS
  <2>1. PICK all : all = Append(run.conflicts, [id |-> r.id, code |-> code])
    OBVIOUS
  <2>2. all # <<>>
    <3>1. run.conflicts \in Seq(Conflicts)
      BY <1>0 DEF RunFields
    <3>2. [id |-> r.id, code |-> code] \in Conflicts
      BY DEF Conflicts, ExportedRecords
    <3> QED
      BY <2>1, <3>1, <3>2
  <2>3. x = [run EXCEPT !.w = v, !.conflicts = all]
    BY <2>1 DEF Conflict
  <2>4. x.conflicts = all
    BY <1>0, <2>3 DEF RunFields
  <2> QED
    BY <2>2, <2>4
<1> DEFINE settled == Settled(w, artifacts, r.governing, r.id, r.body, t)
           again == [run EXCEPT !.replayed = @ + 1]
           imported == [run EXCEPT !.w = settled, !.imported = @ + 1]
<1>8. PICK s : s = settled
  OBVIOUS
<1>9. PICK code : code = Last(s.log).decision /\ code \in Codes
  <2>1. r.id \in Ids /\ r.body \in Bodies
    BY DEF ExportedRecords
  <2>2. IsPrefix(w.log, w.log) /\ w.log \in Seq(Events)
    BY <1>3, SoundLog, PrefixReflexive
  <2>3. Last(s.log).decision = Decide(w, artifacts, r.governing, r.body)
    BY <1>3, <1>6, <1>8, <2>1, <2>2, SettledStays
  <2> QED
    BY <2>3, DecisionIsCode
<1>10. \/ x = again
       \/ x = imported /\ Stored(w, r.id) = {} /\ Reproduced(s, r)
  <2>1. PICK f : f = Conflicted(w, r.governing, r.id, InvalidBody, t)
    OBVIOUS
  <2>2. x # Conflict(run, r, f, "IDEMPOTENCY_CONFLICT") /\ x # Conflict(run, r, s, code)
    BY <1>7, <1>9 DEF Codes
  <2> HIDE DEF again, imported
  <2>3. \/ x = Failed(run) \/ x = again \/ x = Conflict(run, r, f, "IDEMPOTENCY_CONFLICT")
        \/ x = imported /\ Stored(w, r.id) = {} /\ Reproduced(s, r)
        \/ x = Conflict(run, r, s, code)
    BY <1>1, <1>3, <1>8, <1>9, <2>1 DEF ReplayRecord, settled, again, imported
  <2> QED
    BY <1>5, <2>2, <2>3
<1>11. CASE x = again
  <2>1. x.w = w /\ x.failed = run.failed /\ x.conflicts = run.conflicts
    BY <1>0, <1>3, <1>11 DEF RunFields
  <2> QED
    BY <1>3, <2>1 DEF CleanRuns
<1>12. CASE x = imported /\ Stored(w, r.id) = {} /\ Reproduced(s, r)
  <2>1. PICK n : n = run.imported + 1
    OBVIOUS
  <2> HIDE DEF settled
  <2>2. x = [run EXCEPT !.w = s, !.imported = n]
    BY <1>8, <1>12, <2>1
  <2>3. x.w = s /\ x.failed = run.failed /\ x.conflicts = run.conflicts
    BY <1>0, <2>2 DEF RunFields
  <2>4. \A i \in 1 .. Len(w.log) : Replayable(w.log[i], t)
    BY <1>3, <2>3 DEF CleanRuns
  <2>5. /\ Len(s.log) = Len(w.log) + 1
        /\ \A i \in 1 .. Len(w.log) : s.log[i] = w.log[i]
        /\ Replayable(s.log[Len(w.log) + 1], t)
    <3>1. GrownByReplay(w, s, t)
      BY <1>3, <1>6, <1>8, <1>12, SettledReproduced DEF settled
    <3> QED
      BY <3>1 DEF GrownByReplay
  <2>6. Len(w.log) \in Nat
    BY <1>3, SoundLog
  <2>7. ASSUME NEW i \in 1 .. Len(s.log) PROVE Replayable(s.log[i], t)
    <3>1. CASE i = Len(w.log) + 1
      BY <2>5, <3>1
    <3>2. CASE i \in 1 .. Len(w.log)
      BY <2>4, <2>5, <3>2
    <3> QED
      BY <2>5, <2>6, <3>1, <3>2
  <2> QED
    BY <2>3, <2>7
<1> QED
  BY <1>10, <1>11, <1>12

(* A verified round trip wrote the exporter's history, so that history is   *)
(* as a replay writes it.                                                   *)
LEMMA RoundTripClean ==
  ASSUME NEW w, Sound(w), w.active # NoPolicy, NEW bundle, bundle = Export(w), NEW t \in Times,
         NEW run, run = CommitWorkspace(bundle, EmptyWorkspace, bundle.artifacts, t), Verified(run)
  PROVE  Reconstructible(w, t)
<1>1. /\ bundle.records = Records(w.log) /\ bundle.records \in Seq(ExportedRecords)
      /\ bundle.bootstrap \in Policies
  BY BundleTyped
<1>2. PICK artifacts : artifacts = bundle.artifacts
  OBVIOUS
<1>3. PICK p : p = Prepared(EmptyWorkspace, bundle)
  OBVIOUS
<1>4. Sound(p) /\ p.log = <<>>
  BY <1>1, <1>3, EmptySound, PreparedSound DEF EmptyWorkspace
<1>5. PICK start : start = [w |-> p, failed |-> bundle.bootstrap \notin p.policies,
                            imported |-> 0, replayed |-> 0, conflicts |-> <<>>]
  OBVIOUS
<1>6. PICK S : S = CleanRuns(t)
  OBVIOUS
<1>7. start \in S
  <2>1. PICK b \in BOOLEAN : b = (bundle.bootstrap \notin p.policies)
    <3>1. (bundle.bootstrap \notin p.policies) \in BOOLEAN
      OBVIOUS
    <3> QED
      BY <3>1, Zenon
  <2>2. start = [w |-> p, failed |-> b, imported |-> 0, replayed |-> 0, conflicts |-> <<>>]
    BY <1>5, <2>1, Zenon
  <2>3. start \in RunFields /\ start.w = p
    BY <1>4, <2>2 DEF RunFields, Sound
  <2>4. PICK none \in Seq(Events) : none = <<>> /\ IsPrefix(none, none) /\ Len(none) = 0
    <3>1. <<>> \in Seq(Events) /\ Len(<<>>) = 0
      OBVIOUS
    <3> QED
      BY <3>1, PrefixReflexive
  <2>5. start \in ReplaysFrom(<<>>)
    BY <1>4, <2>3, <2>4 DEF ReplaysFrom
  <2>6. \A i \in 1 .. Len(start.w.log) : FALSE
    BY <1>4, <2>3, <2>4
  <2> QED
    BY <1>6, <2>5, <2>6 DEF CleanRuns
<1>8. PICK records : records = bundle.records /\ records \in Seq(ExportedRecords)
  BY <1>1
<1>9. \A x \in S, n \in 1 .. Len(records) : ReplayRecord(x, records[n], artifacts, t) \in S
  <2> SUFFICES ASSUME NEW x \in S, NEW n \in 1 .. Len(records)
               PROVE  ReplayRecord(x, records[n], artifacts, t) \in S
    OBVIOUS
  <2>1. PICK r \in ExportedRecords : r = records[n]
    BY <1>8
  <2>2. r.body \in Evidence => r.body.artifact \in artifacts
    BY <1>1, <1>2, <1>8, <2>1 DEF Export, ToSet
  <2> QED
    BY <1>6, <2>1, <2>2, CleanStays
<1>10. PICK f \in [0 .. Len(records) -> S] : Replays(f, start, records, Ids, artifacts, t)
  <2>1. Len(records) \in Nat
    BY <1>8
  <2> QED
    BY <1>7, <1>9, <2>1, ReplayedRuns
<1>11. PICK all : all = Replayed(start, records, Ids, artifacts, t) /\ all \in S
  <2>1. Len(records) \in 0 .. Len(records)
    BY <1>8
  <2> QED
    BY <1>10, <2>1 DEF Replays
<1>12. all \in RunFields /\ Sound(all.w)
  BY <1>6, <1>11 DEF CleanRuns, ReplaysFrom
<1>13. run = IF ~all.failed /\ all.conflicts = <<>>
                /\ ~(WorkspaceVerifies(all.w, artifacts) /\ Export(all.w) = bundle)
             THEN Failed(all) ELSE all
  BY <1>2, <1>3, <1>5, <1>8, <1>11, Zenon DEF CommitWorkspace, Confirmed
<1>14. Failed(all).failed
  BY <1>12 DEF Failed, RunFields
<1>15. ~run.failed /\ run.conflicts = <<>>
  BY DEF Verified
<1>16. /\ ~(~all.failed /\ all.conflicts = <<>>
            /\ ~(WorkspaceVerifies(all.w, artifacts) /\ Export(all.w) = bundle))
       /\ run = all
  BY <1>13, <1>14, <1>15, Zenon
<1>17. Export(all.w) = bundle /\ ~all.failed /\ all.conflicts = <<>>
  BY <1>15, <1>16, Zenon
<1>18. PICK u : u = all.w /\ Sound(u)
  BY <1>12
<1>19. Records(u.log) = Records(w.log)
  <2>1. Export(u).records = Records(u.log)
    BY DEF Export
  <2> QED
    BY <1>1, <1>17, <1>18, <2>1
<1>20. \A i \in 1 .. Len(u.log) : Replayable(u.log[i], t)
  BY <1>6, <1>11, <1>17, <1>18 DEF CleanRuns
<1>21. PICK past : past = History(w.log)
  OBVIOUS
<1>22. past \in Seq(Events) /\ IsPrefix(past, u.log)
  <2>1. IsPrefix(past, u.log)
    BY <1>18, <1>19, <1>21, SameHistory
  <2>2. past \in Seq(Events)
    BY <1>21, HistoryEnds DEF EndsAt
  <2> QED
    BY <2>1, <2>2
<1>23. \A e \in ToSet(past) : Replayable(e, t)
  <2> SUFFICES ASSUME NEW e \in ToSet(past) PROVE Replayable(e, t)
    OBVIOUS
  <2>1. PICK i \in 1 .. Len(past) : e = past[i]
    BY <1>22 DEF ToSet
  <2>2. PICK log \in Seq(Events) : log = u.log
    BY <1>18, SoundLog
  <2>3. Len(past) <= Len(log) /\ past[i] = log[i]
    BY <1>22, <2>2, PrefixMeans
  <2>4. i \in 1 .. Len(log)
    BY <1>22, <2>2, <2>3
  <2> QED
    BY <1>20, <2>1, <2>2, <2>3, <2>4
<1> QED
  BY <1>21, <1>23, Zenon DEF Reconstructible, Replayable

-----------------------------------------------------------------------------
(* What a clean history is replayed into: the workspace, event by event.    *)

(* The first m events are stored, and the only ones.                        *)
CleanUpTo(log, m, t) ==
  /\ m \in 0 .. Len(log)
  /\ \A i \in 1 .. Len(log) : log[i].persisted <=> i <= m
  /\ \A i \in 1 .. m : Replayable(log[i], t)
(* A replay that has come to the n-th event of w.                           *)
AtStage(run, w, n) ==
  /\ run \in RunFields /\ Sound(run.w) /\ run.failed = FALSE /\ run.conflicts = <<>>
  /\ run.w.log = SubSeq(w.log, 1, n)
  /\ run.w.active = ActiveAt(w, n) /\ run.w.policies = RegisteredAt(w, n)

(* What can be reconstructed has stored events only, of the import's time,  *)
(* up to its last one.                                                      *)
LEMMA ReconstructibleClean ==
  ASSUME NEW w, Sound(w), NEW t, Reconstructible(w, t)
  PROVE  \E m \in 0 .. Len(w.log) : CleanUpTo(w.log, m, t)
<1>1. PICK m \in 0 .. Len(w.log) : EndsAt(w.log, m)
  BY HistoryEnds
<1>2. PICK past \in Seq(Events) : /\ past = History(w.log) /\ Len(past) = m
                                 /\ \A i \in 1 .. m : past[i] = w.log[i]
  BY <1>1 DEF EndsAt
<1>3. \A i \in 1 .. m : Replayable(w.log[i], t)
  <2> SUFFICES ASSUME NEW i \in 1 .. m PROVE Replayable(w.log[i], t)
    OBVIOUS
  <2>1. past[i] \in ToSet(past)
    BY <1>2 DEF ToSet
  <2>2. \A e \in ToSet(past) : Replayable(e, t)
    BY <1>2, Zenon DEF Reconstructible, Replayable
  <2> QED
    BY <1>2, <2>1, <2>2
<1>4. Len(w.log) \in Nat
  BY SoundLog
<1>5. \A i \in 1 .. Len(w.log) : w.log[i].persisted <=> i <= m
  <2> SUFFICES ASSUME NEW i \in 1 .. Len(w.log) PROVE w.log[i].persisted <=> i <= m
    OBVIOUS
  <2>1. w.log[i].persisted => i <= m
    BY <1>1 DEF EndsAt
  <2>2. i <= m => w.log[i].persisted
    <3>1. i <= m => i \in 1 .. m
      BY <1>4
    <3> QED
      BY <1>3, <3>1 DEF Replayable
  <2> QED
    BY <2>1, <2>2
<1> QED
  BY <1>3, <1>5 DEF CleanUpTo

(* After the last stored event nothing moves.                               *)
LEMMA CleanEnd ==
  ASSUME NEW w, Sound(w), w.active # NoPolicy, Retraced(w), NEW t, NEW m, CleanUpTo(w.log, m, t)
  PROVE  ActiveAt(w, m) = w.active /\ RegisteredAt(w, m) = w.policies
<1>1. PICK k \in Nat : k = Len(w.log)
  BY SoundLog
<1>2. m \in 0 .. k /\ \A i \in 1 .. k : i > m => ~AcceptedMove(w.log[i])
  BY <1>1 DEF CleanUpTo, AcceptedMove
<1> DEFINE T == {n \in 0 .. k - m : ActiveAt(w, m + n) = ActiveAt(w, m)}
<1>3. 0 \in T
  BY <1>2
<1>4. ASSUME NEW n \in 1 .. k - m, n - 1 \in T PROVE n \in T
  <2>1. PICK i \in 1 .. k : i = m + n /\ i > m
    <3>1. m + n \in 1 .. k /\ m + n > m
      BY <1>2
    <3> QED
      BY <3>1
  <2>2. ActiveAt(w, i) = w.log[i].policy
    BY <1>1, <1>2, <2>1 DEF Retraced
  <2>3. ActiveAt(w, i - 1) = w.log[i].policy
    BY <1>1 DEF ActiveAt
  <2>4. i - 1 = m + (n - 1)
    BY <1>2, <2>1
  <2> QED
    BY <1>2, <1>4, <2>1, <2>2, <2>3, <2>4
<1>5. k - m \in T
  <2>1. k - m \in Nat
    BY <1>2
  <2>2. \A n \in 0 .. k - m : n \in T
    <3> HIDE DEF T
    <3> QED
      BY <1>3, <1>4, <2>1, EveryNumber
  <2> QED
    BY <2>1, <2>2
<1>6. ActiveAt(w, m) = w.active
  <2>1. m + (k - m) = k
    BY <1>2
  <2>2. ActiveAt(w, k) = w.active
    BY <1>1 DEF ActiveAt
  <2> QED
    BY <1>5, <2>1, <2>2
<1>7. RegisteredAt(w, m) = RegisteredAt(w, k)
  <2>1. \A i \in 1 .. k : AcceptedMove(w.log[i]) => i \in 1 .. m
    BY <1>2
  <2>2. \A i \in 1 .. m : i \in 1 .. k
    BY <1>2
  <2> QED
    BY <2>1, <2>2 DEF RegisteredAt
<1> QED
  BY <1>1, <1>6, <1>7 DEF Retraced

(* Replaying one record of a clean log writes the event it was exported     *)
(* from.                                                                    *)
LEMMA CleanStage ==
  ASSUME NEW w, Sound(w), w.active # NoPolicy, Retraced(w), NEW t \in Times, NEW m,
         CleanUpTo(w.log, m, t), NEW n \in 1 .. m, NEW artifacts,
         \A i \in 1 .. m : w.log[i].body \in Evidence => w.log[i].body.artifact \in artifacts,
         NEW run, AtStage(run, w, n - 1), NEW r, r = Record(w.log, n)
  PROVE  AtStage(ReplayRecord(run, r, artifacts, t), w, n)
<1>1. PICK log \in Seq(Events) : log = w.log
  BY SoundLog
<1>2. /\ m \in 0 .. Len(log) /\ n \in 1 .. Len(log) /\ Len(log) \in Nat
      /\ \A i \in 1 .. m : log[i].persisted /\ log[i] \in Events /\ Replayable(log[i], t)
  <2>1. m \in 0 .. Len(log) /\ \A i \in 1 .. m : Replayable(log[i], t)
    BY <1>1 DEF CleanUpTo
  <2> QED
    BY <2>1 DEF Replayable
<1>3. PICK e \in Events : /\ e = log[n] /\ e.persisted /\ e.at = t /\ e.configured = e.policy
                          /\ e.decision # "EVIDENCE_HASH_MISMATCH"
  BY <1>2 DEF Replayable
<1>4. PICK u : u = run.w /\ Sound(u)
  BY DEF AtStage
<1>5. PICK before \in Seq(Events) : before = SubSeq(log, 1, n - 1) /\ before = u.log
  <2>1. SubSeq(log, 1, n - 1) \in Seq(Events)
    BY <1>2
  <2> QED
    BY <1>1, <1>4, <2>1 DEF AtStage
<1>6. Len(before) = n - 1 /\ \A i \in 1 .. n - 1 : before[i] = log[i]
  BY <1>2, <1>5
<1>7. /\ u.active = e.policy /\ u.policies = RegisteredAt(w, n - 1)
      /\ run \in RunFields /\ run.failed = FALSE /\ run.conflicts = <<>>
  <2>1. ActiveAt(w, n - 1) = log[n].policy
    BY <1>1, <1>2 DEF ActiveAt
  <2> QED
    BY <1>3, <1>4, <2>1 DEF AtStage
<1>8. u.active # NoPolicy /\ u.active \in u.policies
  <2>1. e.policy \in w.policies /\ w.policies \subseteq Policies
    BY <1>1, <1>2, <1>3, SoundLog
  <2> QED
    BY <1>4, <1>7, <2>1, NoPolicyAssumption DEF Sound
<1>9. /\ r.id = e.id /\ r.body = e.body /\ r.expected = e.decision /\ r.governing = e.policy
      /\ r.id \in Ids /\ r.body \in Bodies /\ e.body \in Bodies
  <2>1. r.id = e.id /\ r.body = e.body /\ r.expected = e.decision /\ r.governing = e.policy
    BY <1>1, <1>3 DEF Record
  <2>2. e.body \in Bodies
    BY <1>1, <1>2, <1>3, SoundLog
  <2> QED
    BY <2>1, <2>2 DEF Events
<1>10. DecidedAlone(log, n)
  BY <1>1, <1>2, <1>3 DEF Retraced
<1>11. ASSUME NEW a PROVE HasEvidence(u, a) <=> HadEvidence(log, n - 1, a)
  <2>1. HasEvidence(u, a) <=> \E j \in 1 .. n - 1 :
          /\ before[j].persisted /\ before[j].decision = "ACCEPTED"
          /\ before[j].body \in Evidence /\ before[j].body.artifact = a
    BY <1>5, <1>6 DEF HasEvidence, Accepted, ToSet
  <2> QED
    BY <1>6, <2>1 DEF HadEvidence
<1>12. WorkspaceVerifies(u, artifacts)
  <2> SUFFICES ASSUME NEW a \in Artifacts, HasEvidence(u, a) PROVE a \in artifacts
    BY DEF WorkspaceVerifies
  <2>1. PICK j \in 1 .. n - 1 : log[j].body \in Evidence /\ log[j].body.artifact = a
    BY <1>11 DEF HadEvidence
  <2>2. j \in 1 .. m
    BY <1>2
  <2> QED
    BY <1>1, <2>1, <2>2
<1>13. Stored(u, r.id) = {}
  <2> SUFFICES ASSUME NEW x \in ToSet(before), x.persisted, x.id = r.id PROVE FALSE
    BY <1>5 DEF Stored
  <2>1. PICK j \in 1 .. n - 1 : before[j] = x
    BY <1>6 DEF ToSet
  <2>2. log[j].persisted => log[j].id # log[n].id
    BY <1>10 DEF DecidedAlone
  <2> QED
    BY <1>3, <1>6, <1>9, <2>1, <2>2
<1>14. PICK code : code = Decide(u, artifacts, r.governing, r.body)
  OBVIOUS
<1>15. code = e.decision
  <2>1. e.body \in Evidence => e.body.artifact \in artifacts
    BY <1>1, <1>2, <1>3
  <2>2. code = IF e.body \in Evidence
               THEN IF HasEvidence(u, e.body.artifact) THEN "ENTITY_ALREADY_EXISTS" ELSE "ACCEPTED"
               ELSE IF e.body.prior # e.policy THEN "POLICY_HASH_MISMATCH" ELSE "ACCEPTED"
    BY <1>7, <1>9, <1>14, <2>1, Zenon DEF Decide
  <2>3. HasEvidence(u, e.body.artifact) <=> HadEvidence(log, n - 1, e.body.artifact)
    BY <1>11
  <2>4. code = DecisionAt(log, n)
    BY <1>3, <2>2, <2>3, Zenon DEF DecisionAt
  <2>5. e.decision = DecisionAt(log, n)
    BY <1>3, <1>10 DEF DecidedAlone
  <2> QED
    BY <2>4, <2>5
<1>16. PICK s : s = Settled(u, artifacts, r.governing, r.id, r.body, t)
  OBVIOUS
<1>17. /\ Sound(s) /\ Moves(u, s, code, r.body)
       /\ \E x \in Events : /\ Adds(u, s, x)
                            /\ AsDecided(x, u, s, r.governing, r.id, r.body, code, t)
  BY <1>4, <1>8, <1>9, <1>14, <1>16, SettledSound
<1>18. PICK x \in Events : /\ Adds(u, s, x)
                           /\ AsDecided(x, u, s, r.governing, r.id, r.body, code, t)
  BY <1>17
<1>19. x = e
  <2>1. /\ x.persisted = TRUE /\ x.id = e.id /\ x.body = e.body /\ x.decision = e.decision
        /\ x.policy = e.policy /\ x.at = t
        /\ x.configured = IF e.policy \in s.policies THEN e.policy ELSE NoPolicy
    BY <1>7, <1>9, <1>15, <1>18 DEF AsDecided
  <2>2. e.policy \in s.policies
    <3>1. u.policies \subseteq s.policies
      BY <1>17 DEF Moves
    <3> QED
      BY <1>7, <1>8, <3>1
  <2>3. x.configured = e.configured /\ x.at = e.at /\ x.persisted = e.persisted
    BY <1>3, <2>1, <2>2 DEF Events
  <2> QED
    BY <2>1, <2>3 DEF Events
<1>20. PICK after \in Seq(Events) : after = SubSeq(log, 1, n) /\ after = s.log
  <2>1. SubSeq(log, 1, n) \in Seq(Events)
    BY <1>2
  <2>2. Append(before, e) = SubSeq(log, 1, n)
    <3>1. PICK grown \in Seq(Events) : grown = Append(before, e)
      <4>1. Append(before, e) \in Seq(Events)
        OBVIOUS
      <4> QED
        BY <4>1
    <3>2. /\ Len(grown) = Len(before) + 1 /\ grown[Len(before) + 1] = e
          /\ \A i \in 1 .. Len(before) : grown[i] = before[i]
      BY <3>1
    <3>3. Len(grown) = n /\ \A i \in 1 .. n : grown[i] = log[i]
      BY <1>2, <1>3, <1>6, <3>2
    <3>4. PICK part \in Seq(Events) : part = SubSeq(log, 1, n)
      BY <2>1
    <3>5. Len(part) = n /\ \A i \in 1 .. n : part[i] = log[i]
      BY <1>2, <3>4
    <3> QED
      BY <3>1, <3>3, <3>4, <3>5
  <2> QED
    BY <1>5, <1>18, <1>19, <2>1, <2>2 DEF Adds
<1>21. Last(s.log).decision = code
  <2>1. Len(after) = n /\ after[n] = log[n]
    BY <1>2, <1>20
  <2> QED
    BY <1>3, <1>15, <1>20, <2>1 DEF Last
<1>22. Reproduced(s, r)
  <2>1. Len(after) = n /\ after[n] = log[n]
    BY <1>2, <1>20
  <2>2. SubSeq(after, 1, n) = after
    <3>1. PICK part \in Seq(Events) : part = SubSeq(after, 1, n)
      <4>1. SubSeq(after, 1, n) \in Seq(Events)
        BY <1>2, <2>1
      <4> QED
        BY <4>1
    <3>2. Len(part) = n /\ \A i \in 1 .. n : part[i] = after[i]
      BY <1>2, <2>1, <3>1
    <3> QED
      BY <2>1, <3>1, <3>2
  <2>3. Record(s.log, n) = Record(log, n)
    BY <1>20, <2>1, <2>2 DEF Record
  <2>4. n \in 1 .. Len(s.log)
    BY <1>2, <1>20, <2>1
  <2> QED
    BY <1>1, <2>3, <2>4 DEF Reproduced
<1>23. PICK x1 : x1 = ReplayRecord(run, r, artifacts, t)
  OBVIOUS
<1>24. PICK k \in Nat : k = run.imported + 1
  BY <1>7 DEF RunFields
<1>25. x1 = [run EXCEPT !.w = s, !.imported = k]
  <2>1. ~(\E y \in {y \in Stored(u, r.id) : y.body = r.body} : y.decision = r.expected /\ Reproduced(u, r))
        /\ ~(\E y \in {y \in Stored(u, r.id) : y.body = r.body} : y.decision # r.expected)
    BY <1>13
  <2>2. x1 = [run EXCEPT !.w = s, !.imported = run.imported + 1]
    BY <1>4, <1>7, <1>9, <1>12, <1>13, <1>15, <1>16, <1>21, <1>22, <1>23, <2>1, Zenon
       DEF ReplayRecord
  <2> QED
    BY <1>24, <2>2
<1>26. /\ x1 \in RunFields /\ x1.w = s /\ x1.failed = FALSE /\ x1.conflicts = <<>>
  BY <1>7, <1>17, <1>25 DEF RunFields, Sound
<1>27. s.active = ActiveAt(w, n) /\ s.policies = RegisteredAt(w, n)
  <2>1. ActiveAt(w, n) = IF AcceptedMove(e) THEN e.body.candidate ELSE e.policy
    BY <1>1, <1>2, <1>3 DEF Retraced
  <2>2. AcceptedMove(e) <=> code = "ACCEPTED" /\ r.body \in Transitions
    BY <1>3, <1>9, <1>15 DEF AcceptedMove
  <2>3. /\ s.active = IF AcceptedMove(e) THEN e.body.candidate ELSE u.active
        /\ s.policies = IF AcceptedMove(e) THEN u.policies \cup {e.body.candidate} ELSE u.policies
    BY <1>9, <1>17, <2>2 DEF Moves
  <2>4. AcceptedMove(e) => e.body.candidate \in Policies
    BY BodiesApart DEF AcceptedMove
  <2>5. \A i \in 1 .. n : i = n \/ i \in 1 .. n - 1
    BY <1>2
  <2>6. n \in 1 .. n /\ \A i \in 1 .. n - 1 : i \in 1 .. n
    BY <1>2
  <2>7. RegisteredAt(w, n) =
          RegisteredAt(w, n - 1) \cup (IF AcceptedMove(e) THEN {e.body.candidate} ELSE {})
    BY <1>1, <1>3, <2>4, <2>5, <2>6 DEF RegisteredAt
  <2> QED
    BY <1>7, <2>1, <2>3, <2>7
<1> QED
  BY <1>1, <1>17, <1>20, <1>23, <1>26, <1>27 DEF AtStage

(* A clean log replays into an empty workspace, record by record.           *)
LEMMA CleanReplay ==
  ASSUME NEW w, Sound(w), w.active # NoPolicy, Retraced(w), NEW t \in Times, NEW m,
         CleanUpTo(w.log, m, t), NEW bundle, bundle = Export(w),
         NEW run, run = CommitWorkspace(bundle, EmptyWorkspace, bundle.artifacts, t)
  PROVE  Verified(run)
<1>1. PICK log \in Seq(Events) : log = w.log
  BY SoundLog
<1>2. PICK artifacts : artifacts = bundle.artifacts
  OBVIOUS
<1>3. /\ m \in 0 .. Len(log) /\ Len(log) \in Nat
      /\ \A i \in 1 .. Len(log) : log[i].persisted <=> i <= m
  BY <1>1 DEF CleanUpTo
<1>4. PICK records \in Seq(ExportedRecords) :
        /\ records = Records(log) /\ records = bundle.records /\ Len(records) = m
        /\ \A i \in 1 .. m : records[i] = Record(log, i)
  <2>1. /\ Records(log) \in Seq(ExportedRecords) /\ Len(Records(log)) = m
        /\ \A i \in 1 .. m : Records(log)[i] = Record(log, i)
    BY <1>1, <1>3, RecordsUpTo
  <2> QED
    BY <1>1, <2>1, BundleTyped
<1>5. /\ bundle.bootstrap \in Policies /\ bundle.active = w.active /\ bundle.policies = w.policies
      /\ artifacts = {r.body.artifact : r \in {q \in ToSet(records) : q.body \in Evidence}}
      /\ bundle.bootstrap = IF records = <<>> THEN w.active ELSE records[1].governing
      /\ bundle.evidence = {a \in Artifacts : HasEvidence(w, a)}
  <2>1. bundle.bootstrap \in Policies
    BY BundleTyped
  <2> QED
    BY <1>1, <1>2, <1>4, <2>1 DEF Export
<1>6. \A i \in 1 .. m : log[i].body \in Evidence => log[i].body.artifact \in artifacts
  <2> SUFFICES ASSUME NEW i \in 1 .. m, log[i].body \in Evidence
               PROVE  log[i].body.artifact \in artifacts
    OBVIOUS
  <2>1. PICK r : r = records[i] /\ r = Record(log, i)
    BY <1>4
  <2>2. r.body = log[i].body
    BY <2>1 DEF Record
  <2>3. r \in ToSet(records)
    BY <1>4, <2>1 DEF ToSet
  <2> QED
    BY <1>5, <2>2, <2>3
<1>7. ActiveAt(w, m) = w.active /\ RegisteredAt(w, m) = w.policies
  BY CleanEnd
<1>8. bundle.bootstrap = ActiveAt(w, 0) /\ RegisteredAt(w, 0) = {bundle.bootstrap}
  <2>1. RegisteredAt(w, 0) = {ActiveAt(w, 0)}
    BY DEF RegisteredAt
  <2>2. CASE m = 0
    <3>1. records = <<>>
      BY <1>4, <2>2
    <3> QED
      BY <1>5, <1>7, <2>1, <2>2, <3>1
  <2>3. CASE m # 0
    <3>1. 1 \in 1 .. m /\ 0 < Len(log) /\ records # <<>>
      BY <1>3, <1>4, <2>3
    <3>2. records[1].governing = log[1].policy
      <4>1. records[1] = Record(log, 1)
        BY <1>4, <3>1
      <4>2. Record(log, 1).governing = log[1].policy
        BY DEF Record
      <4> QED
        BY <4>1, <4>2
    <3> QED
      BY <1>1, <1>5, <2>1, <3>1, <3>2 DEF ActiveAt
  <2> QED
    BY <2>2, <2>3
<1>9. PICK p : p = Prepared(EmptyWorkspace, bundle)
  OBVIOUS
<1>10. /\ Sound(p) /\ p.log = <<>> /\ p.active = bundle.bootstrap /\ p.policies = {bundle.bootstrap}
  <2>1. p = [EmptyWorkspace EXCEPT !.active = bundle.bootstrap, !.policies = @ \cup {bundle.bootstrap}]
    BY <1>9 DEF Prepared, EmptyWorkspace
  <2>2. p = [log |-> <<>>, active |-> bundle.bootstrap, policies |-> {bundle.bootstrap}]
    BY <2>1 DEF EmptyWorkspace
  <2> QED
    BY <1>5, <2>2, FreshSound
<1>11. PICK start : start = [w |-> p, failed |-> bundle.bootstrap \notin p.policies,
                             imported |-> 0, replayed |-> 0, conflicts |-> <<>>]
  OBVIOUS
<1>12. AtStage(start, w, 0) /\ start \in ReplaysFrom(<<>>)
  <2>1. (bundle.bootstrap \notin p.policies) = FALSE
    BY <1>10
  <2>2. start = [w |-> p, failed |-> FALSE, imported |-> 0, replayed |-> 0, conflicts |-> <<>>]
    BY <1>11, <2>1, Zenon
  <2>3. start \in RunFields /\ start.w = p /\ start.failed = FALSE /\ start.conflicts = <<>>
    BY <1>10, <2>2 DEF RunFields, Sound
  <2>4. PICK none \in Seq(Events) : none = <<>> /\ IsPrefix(none, none) /\ none = SubSeq(log, 1, 0)
    <3>1. <<>> \in Seq(Events) /\ SubSeq(log, 1, 0) = <<>>
      OBVIOUS
    <3> QED
      BY <3>1, PrefixReflexive
  <2> QED
    BY <1>1, <1>8, <1>10, <2>3, <2>4 DEF AtStage, ReplaysFrom
<1>13. \A x \in ReplaysFrom(<<>>), n \in 1 .. Len(records) :
         ReplayRecord(x, records[n], artifacts, t) \in ReplaysFrom(<<>>)
  <2> SUFFICES ASSUME NEW x \in ReplaysFrom(<<>>), NEW n \in 1 .. Len(records)
               PROVE  ReplayRecord(x, records[n], artifacts, t) \in ReplaysFrom(<<>>)
    OBVIOUS
  <2>1. PICK r \in ExportedRecords : r = records[n]
    BY <1>4
  <2>2. <<>> \in Seq(Events)
    OBVIOUS
  <2> QED
    BY <2>1, <2>2, ReplayStays
<1>14. PICK f \in [0 .. Len(records) -> ReplaysFrom(<<>>)] : Replays(f, start, records, Ids, artifacts, t)
  <2>1. Len(records) \in Nat /\ start \in ReplaysFrom(<<>>)
    BY <1>4, <1>12
  <2> QED
    BY <1>13, <2>1, ReplayedRuns
<1> DEFINE T == {n \in 0 .. m : AtStage(f[n], w, n)}
<1>15. 0 \in T
  BY <1>3, <1>12, <1>14 DEF Replays
<1>16. ASSUME NEW n \in 1 .. m, n - 1 \in T PROVE n \in T
  <2>1. PICK run0 : run0 = f[n - 1] /\ AtStage(run0, w, n - 1)
    BY <1>16
  <2>2. PICK r : r = Record(w.log, n) /\ r = records[n]
    BY <1>1, <1>4
  <2>3. r.id \in Ids
    <3>1. n \in 1 .. Len(records)
      BY <1>4
    <3>2. r \in ExportedRecords
      BY <2>2, <3>1
    <3> QED
      BY <3>2 DEF ExportedRecords
  <2>4. f[n] = ReplayRecord(run0, r, artifacts, t)
    BY <1>4, <1>14, <2>1, <2>2, <2>3 DEF Replays
  <2>5. \A i \in 1 .. m : w.log[i].body \in Evidence => w.log[i].body.artifact \in artifacts
    BY <1>1, <1>6
  <2>6. AtStage(ReplayRecord(run0, r, artifacts, t), w, n)
    BY <2>1, <2>2, <2>5, CleanStage
  <2> QED
    BY <2>4, <2>6
<1>17. m \in T
  <2>1. m \in Nat
    BY <1>3
  <2>2. \A n \in 0 .. m : n \in T
    <3> HIDE DEF T
    <3> QED
      BY <1>15, <1>16, <2>1, EveryNumber
  <2> QED
    BY <2>1, <2>2
<1>18. PICK all : all = Replayed(start, records, Ids, artifacts, t) /\ AtStage(all, w, m)
  BY <1>4, <1>14, <1>17 DEF Replays
<1>19. PICK u : /\ u = all.w /\ Sound(u) /\ u.active = w.active /\ u.policies = w.policies
                /\ u.log = SubSeq(log, 1, m)
  BY <1>1, <1>7, <1>18 DEF AtStage
<1>20. PICK past \in Seq(Events) : /\ past = u.log /\ past = SubSeq(log, 1, m) /\ Len(past) = m
                                  /\ \A i \in 1 .. m : past[i] = log[i]
  <2>1. PICK past \in Seq(Events) : past = SubSeq(log, 1, m)
    <3>1. SubSeq(log, 1, m) \in Seq(Events)
      BY <1>3
    <3> QED
      BY <3>1
  <2>2. Len(past) = m /\ \A i \in 1 .. m : past[i] = log[i]
    BY <1>3, <2>1
  <2> QED
    BY <1>19, <2>1, <2>2
<1>21. Records(u.log) = records
  <2>1. \A i \in 1 .. m : past[i].persisted
    BY <1>3, <1>20
  <2>2. m \in 0 .. Len(past) /\ \A i \in 1 .. Len(past) : past[i].persisted <=> i <= m
    BY <1>3, <1>20, <2>1
  <2>3. /\ Records(past) \in Seq(ExportedRecords) /\ Len(Records(past)) = m
        /\ \A i \in 1 .. m : Records(past)[i] = Record(past, i)
    <3>1. m \in 0 .. Len(u.log) /\ \A i \in 1 .. Len(u.log) : u.log[i].persisted <=> i <= m
      BY <1>20, <2>2
    <3>2. /\ Records(u.log) \in Seq(ExportedRecords) /\ Len(Records(u.log)) = m
          /\ \A i \in 1 .. m : Records(u.log)[i] = Record(u.log, i)
      BY <1>19, <3>1, RecordsUpTo
    <3> QED
      BY <1>20, <3>2
  <2>4. ASSUME NEW i \in 1 .. m PROVE Record(past, i) = Record(log, i)
    <3>1. past[i] = log[i]
      BY <1>20
    <3>2. SubSeq(past, 1, i) = SubSeq(log, 1, i)
      <4>1. PICK a \in Seq(Events) : a = SubSeq(past, 1, i)
        <5>1. SubSeq(past, 1, i) \in Seq(Events)
          BY <1>20
        <5> QED
          BY <5>1
      <4>2. PICK b \in Seq(Events) : b = SubSeq(log, 1, i)
        <5>1. SubSeq(log, 1, i) \in Seq(Events)
          BY <1>3
        <5> QED
          BY <5>1
      <4>3. Len(a) = i /\ \A j \in 1 .. i : a[j] = past[j]
        BY <1>20, <4>1
      <4>4. Len(b) = i /\ \A j \in 1 .. i : b[j] = log[j]
        BY <1>3, <4>2
      <4>5. \A j \in 1 .. i : a[j] = b[j]
        BY <1>3, <1>20, <4>3, <4>4
      <4>6. a = b
        BY <4>3, <4>4, <4>5
      <4> QED
        BY <4>1, <4>2, <4>6
    <3> QED
      BY <3>1, <3>2 DEF Record
  <2>5. PICK others \in Seq(ExportedRecords) : others = Records(past)
    BY <2>3
  <2>6. Len(others) = m /\ \A i \in 1 .. m : others[i] = records[i]
    BY <1>4, <2>3, <2>4, <2>5
  <2>7. others = records
    BY <1>4, <2>5, <2>6
  <2> QED
    BY <1>20, <2>5, <2>7
<1>22. Accepted(u) = Accepted(w)
  <2>1. Records(u.log) = Records(w.log)
    BY <1>1, <1>4, <1>21
  <2>2. Accepted(u) \subseteq Accepted(w)
    BY <1>19, <2>1, SameAccepted
  <2>3. Accepted(w) \subseteq Accepted(u)
    BY <1>19, <2>1, SameAccepted
  <2> QED
    BY <2>2, <2>3, Zenon
<1>23. \A a : HasEvidence(u, a) <=> HasEvidence(w, a)
  BY <1>22 DEF HasEvidence
<1>24. Export(u) = bundle
  <2>1. {a \in Artifacts : HasEvidence(u, a)} = {a \in Artifacts : HasEvidence(w, a)}
    BY <1>23
  <2> QED
    BY <1>1, <1>4, <1>19, <1>21, <2>1, Zenon DEF Export
<1>25. WorkspaceVerifies(u, artifacts)
  <2> SUFFICES ASSUME NEW a \in Artifacts, HasEvidence(u, a) PROVE a \in artifacts
    BY DEF WorkspaceVerifies
  <2>1. PICK x \in ToSet(past) : x.body \in Evidence /\ x.body.artifact = a
    BY <1>20 DEF HasEvidence, Accepted
  <2>2. PICK i \in 1 .. m : past[i] = x
    BY <1>20 DEF ToSet
  <2> QED
    BY <1>6, <1>20, <2>1, <2>2
<1>26. run = IF ~all.failed /\ all.conflicts = <<>>
                /\ ~(WorkspaceVerifies(all.w, artifacts) /\ Export(all.w) = bundle)
             THEN Failed(all) ELSE all
  BY <1>2, <1>4, <1>9, <1>11, <1>18, Zenon DEF CommitWorkspace, Confirmed
<1>27. run = all
  BY <1>19, <1>24, <1>25, <1>26, Zenon
<1> QED
  BY <1>18, <1>27 DEF AtStage, Verified

(* Such a workspace holds every artifact its bundle names.                  *)
LEMMA CleanTransfers ==
  ASSUME NEW w, Sound(w), w.active # NoPolicy, Retraced(w), NEW t, NEW m, CleanUpTo(w.log, m, t),
         NEW artifacts, WorkspaceVerifies(w, artifacts)
  PROVE  Transferable(Export(w), artifacts)
<1>1. PICK log \in Seq(Events) : log = w.log
  BY SoundLog
<1>2. PICK bundle : bundle = Export(w)
  OBVIOUS
<1>3. PICK records \in Seq(ExportedRecords) :
        /\ records = Records(log)
        /\ bundle.artifacts = {r.body.artifact : r \in {q \in ToSet(records) : q.body \in Evidence}}
  BY <1>1, <1>2, BundleTyped DEF Export
<1> SUFFICES ASSUME NEW a \in bundle.artifacts PROVE a \in artifacts
  BY <1>2 DEF Transferable
<1>4. PICK r \in ToSet(records) : r.body \in Evidence /\ a = r.body.artifact
  BY <1>3
<1>5. PICK i \in 1 .. Len(log) : log[i].persisted /\ r = Record(log, i)
  <2>1. KeptOf(records, log, Len(log))
    BY <1>1, <1>3, RecordsAreStored
  <2>2. PICK j \in 1 .. Len(records) : records[j] = r
    BY <1>3 DEF ToSet
  <2> QED
    BY <2>1, <2>2 DEF KeptOf
<1>6. log[i].body \in Evidence /\ log[i].body.artifact = a /\ a \in Artifacts
  BY <1>4, <1>5, BodiesApart DEF Record
<1>7. i \in 1 .. m /\ Replayable(log[i], t)
  BY <1>1, <1>5 DEF CleanUpTo
<1>8. log[i].decision = DecisionAt(log, i)
  BY <1>1, <1>5, <1>7 DEF Retraced, DecidedAlone, Replayable
<1>9. HasEvidence(w, a)
  <2>1. ASSUME NEW j \in 1 .. Len(log), log[j].persisted, log[j].decision = "ACCEPTED",
               log[j].body \in Evidence, log[j].body.artifact = a
        PROVE  HasEvidence(w, a)
    <3>1. log[j] \in ToSet(w.log)
      BY <1>1 DEF ToSet
    <3> QED
      BY <2>1, <3>1 DEF HasEvidence, Accepted
  <2>2. CASE HadEvidence(log, i - 1, a)
    BY <1>1, <2>1, <2>2 DEF HadEvidence
  <2>3. CASE ~HadEvidence(log, i - 1, a)
    <3>1. log[i].decision = "ACCEPTED"
      BY <1>6, <1>8, <2>3 DEF DecisionAt
    <3> QED
      BY <1>5, <1>6, <2>1, <3>1
  <2> QED
    BY <2>2, <2>3
<1> QED
  BY <1>6, <1>9 DEF WorkspaceVerifies

(* A workspace its own clients wrote is rebuilt from its bundle exactly     *)
(* when it is reconstructible.                                              *)
LEMMA CloneIff ==
  ASSUME NEW w, Sound(w), w.active # NoPolicy, Retraced(w), NEW t \in Times,
         NEW bundle, bundle = Export(w),
         NEW run, run = CommitWorkspace(bundle, EmptyWorkspace, bundle.artifacts, t)
  PROVE  Verified(run) <=> Reconstructible(w, t)
<1>1. Verified(run) => Reconstructible(w, t)
  BY RoundTripClean
<1>2. ASSUME Reconstructible(w, t) PROVE Verified(run)
  <2>1. PICK m : CleanUpTo(w.log, m, t)
    BY <1>2, ReconstructibleClean
  <2> QED
    BY <2>1, CleanReplay
<1> QED
  BY <1>1, <1>2

(* Such a workspace has the artifacts of its bundle where its evidence is.  *)
LEMMA CloneTransfers ==
  ASSUME NEW w, Sound(w), w.active # NoPolicy, Retraced(w), NEW t, Reconstructible(w, t),
         NEW artifacts, WorkspaceVerifies(w, artifacts)
  PROVE  Transferable(Export(w), artifacts)
<1>1. PICK m : CleanUpTo(w.log, m, t)
  BY ReconstructibleClean
<1> QED
  BY <1>1, CleanTransfers

(* A workspace nobody wrote to accounts for its log.                        *)
LEMMA RetracedInit == Init => SourceRetraced
<1> SUFFICES ASSUME Init PROVE SourceRetraced
  OBVIOUS
<1>1. PICK w : w = ws["source"] /\ w = EmptyWorkspace
  BY DEF Init, Sides
<1>2. w.log = <<>> /\ w.active = NoPolicy /\ Len(w.log) = 0
  BY <1>1 DEF EmptyWorkspace
<1>3. \A i \in 1 .. Len(w.log) : FALSE
  BY <1>2
<1> QED
  BY <1>1, <1>2, <1>3, Zenon DEF SourceRetraced, Retraced

(* Exactly which workspaces survive a round trip into an empty one          *)
(* (RoundTripCharacterised).                                                *)
THEOREM RoundTripsCharacterised == Spec => []RoundTripCharacterised
<1>1. ASSUME ExchangeInv, SourceRetraced PROVE RoundTripCharacterised
  <2> SUFFICES ASSUME Exportable(ws["source"], store["source"])
               PROVE  Rebuilds(ws["source"], store["source"], now) <=> Reconstructible(ws["source"], now)
    BY DEF RoundTripCharacterised
  <2>1. PICK w : w = ws["source"] /\ Sound(w) /\ Retraced(w)
    BY <1>1 DEF ExchangeInv, SourceRetraced, Sides
  <2>2. PICK artifacts : artifacts = store["source"] /\ w.active # NoPolicy
                         /\ WorkspaceVerifies(w, artifacts)
    BY <2>1 DEF Exportable
  <2>3. PICK t \in Times : t = now
    BY <1>1 DEF ExchangeInv, TypeOK, Times
  <2>4. PICK bundle : bundle = Export(w)
    OBVIOUS
  <2>5. PICK run : run = CommitWorkspace(bundle, EmptyWorkspace, bundle.artifacts, t)
    OBVIOUS
  <2>6. Rebuilds(w, artifacts, t) <=> Transferable(bundle, artifacts) /\ Verified(run)
    BY <2>4, <2>5 DEF Rebuilds
  <2>7. Verified(run) <=> Reconstructible(w, t)
    BY <2>1, <2>2, <2>3, <2>4, <2>5, CloneIff
  <2>8. Reconstructible(w, t) => Transferable(bundle, artifacts)
    BY <2>1, <2>2, <2>4, CloneTransfers
  <2>9. Rebuilds(w, artifacts, t) <=> Reconstructible(w, t)
    BY <2>6, <2>7, <2>8
  <2> QED
    BY <2>1, <2>2, <2>3, <2>9, Zenon
<1>2. Init => SourceRetraced
  BY RetracedInit
<1>3. ExchangeInv /\ [Next]_vars => ExchangeInv'
  BY ExchangeStep
<1>4. ExchangeInv /\ SourceRetraced /\ [Next]_vars => SourceRetraced'
  BY RetracedStep
<1> QED
  BY ExchangeInit, <1>1, <1>2, <1>3, <1>4, PTL DEF Spec

-----------------------------------------------------------------------------
(* A bundle imported again.                                                 *)

(* What a workspace exports tells whether it is reconstructible.            *)
LEMMA SharedReconstructible ==
  ASSUME NEW w, Sound(w), NEW u, Sound(u), Records(w.log) = Records(u.log),
         NEW t, Reconstructible(u, t)
  PROVE  Reconstructible(w, t)
<1>1. PICK m \in 0 .. Len(w.log) : EndsAt(w.log, m)
  BY HistoryEnds
<1>2. PICK n \in 0 .. Len(u.log) : EndsAt(u.log, n)
  BY HistoryEnds
<1>3. PICK past \in Seq(Events) : /\ past = History(w.log) /\ Len(past) = m
                                 /\ \A i \in 1 .. m : past[i] = w.log[i]
  BY <1>1 DEF EndsAt
<1>4. PICK other \in Seq(Events) : /\ other = History(u.log) /\ Len(other) = n
                                  /\ \A i \in 1 .. n : other[i] = u.log[i]
  BY <1>2 DEF EndsAt
<1>5. PICK log \in Seq(Events) : log = u.log
  BY SoundLog
<1>6. m <= Len(log) /\ \A i \in 1 .. m : past[i] = log[i]
  <2>1. IsPrefix(past, log)
    BY <1>3, <1>5, SameHistory
  <2> QED
    BY <1>3, <1>5, <2>1, PrefixMeans
<1>7. m <= n
  <2>1. CASE m = 0
    BY <1>2, <2>1
  <2>2. CASE m # 0
    <3>1. m \in 1 .. m /\ m \in 1 .. Len(log) /\ past[m] = w.log[m] /\ past[m] = log[m]
      BY <1>1, <1>3, <1>6, <2>2
    <3>2. w.log[m].persisted
      BY <1>1, <2>2 DEF EndsAt
    <3>3. log[m].persisted
      BY <3>1, <3>2
    <3> QED
      BY <1>2, <1>5, <3>1, <3>3 DEF EndsAt
  <2> QED
    BY <2>1, <2>2
<1>8. ToSet(past) \subseteq ToSet(other)
  <2> SUFFICES ASSUME NEW i \in 1 .. m PROVE past[i] \in ToSet(other)
    BY <1>3 DEF ToSet
  <2>1. i \in 1 .. n
    BY <1>1, <1>2, <1>7
  <2>2. past[i] = other[i]
    BY <1>4, <1>5, <1>6, <2>1
  <2> QED
    BY <1>4, <2>1, <2>2 DEF ToSet
<1> QED
  BY <1>3, <1>4, <1>8 DEF Reconstructible

(* The preflight of a workspace's own bundle: it fails exactly when the     *)
(* target cannot be rebuilt, and otherwise replays on the rebuilt target.   *)
LEMMA PreflightOfOwn ==
  ASSUME NEW w, Sound(w), w.active # NoPolicy, NEW bundle, bundle = Export(w), NEW t \in Times,
         NEW artifacts,
         NEW clone, clone = CommitWorkspace(bundle, EmptyWorkspace, bundle.artifacts, t),
         NEW run, run = Preflight(bundle, w, artifacts, t)
  PROVE  /\ ~run.failed <=> Transferable(bundle, artifacts) /\ Verified(clone)
         /\ ~run.failed => run.conflicts = <<>> /\ run.imported = 0
<1>1. PICK held : held = bundle.artifacts
  OBVIOUS
<1>2. held \cup held = held
  OBVIOUS
<1>3. PICK second : second = CommitWorkspace(bundle, clone.w, held, t)
  OBVIOUS
<1>4. run = IF Transferable(bundle, artifacts) /\ Verified(clone) THEN second ELSE Failed(second)
  BY <1>1, <1>2, <1>3, Zenon DEF Preflight
<1>5. /\ bundle.records \in Seq(ExportedRecords) /\ bundle.bootstrap \in Policies
      /\ bundle.active = w.active
  BY BundleTyped
<1>6. clone \in RunFields /\ Sound(clone.w)
  <2>1. clone \in ReplaysFrom(EmptyWorkspace.log)
    BY <1>5, EmptySound, CommitStays
  <2> QED
    BY <2>1 DEF ReplaysFrom
<1>7. PICK u : u = clone.w /\ Sound(u)
  BY <1>6
<1>8. second \in RunFields
  <2>1. second \in ReplaysFrom(u.log)
    BY <1>3, <1>5, <1>7, CommitStays
  <2> QED
    BY <2>1 DEF ReplaysFrom
<1>9. CASE Transferable(bundle, artifacts) /\ Verified(clone)
  <2>1. WorkspaceVerifies(u, held) /\ Export(u) = bundle
    BY <1>1, <1>6, <1>7, <1>9, VerifiedCommit
  <2>2. u.active # NoPolicy
    <3>1. Export(u).active = u.active
      BY DEF Export
    <3> QED
      BY <1>5, <2>1, <3>1
  <2>3. second \in Held(u)
    BY <1>3, <1>7, <2>1, <2>2, HeldBundleReplays
  <2>4. run = second
    BY <1>4, <1>9
  <2>5. run.failed = FALSE /\ run.conflicts = <<>> /\ run.imported = 0
    BY <2>3, <2>4 DEF Held
  <2> QED
    BY <1>9, <2>5
<1>10. CASE ~(Transferable(bundle, artifacts) /\ Verified(clone))
  <2>1. run = Failed(second)
    BY <1>4, <1>10
  <2>2. run.failed = TRUE
    BY <1>8, <2>1 DEF Failed, RunFields
  <2> QED
    BY <1>10, <2>2
<1> QED
  BY <1>9, <1>10

(* A bundle imported again into a workspace that exports to it: the record  *)
(* step replays every record and writes nothing, and the preflight lets it  *)
(* through exactly when the target can be rebuilt now (ReimportReplays).    *)
THEOREM ReimportsReplay == Spec => []ReimportReplays
<1>1. ASSUME ExchangeInv, SourceRetraced PROVE ReimportReplays
  <2> SUFFICES ASSUME Exportable(ws["source"], store["source"]),
                      Exportable(ws["target"], store["target"]),
                      Export(ws["target"]) = Export(ws["source"])
               PROVE  LET bundle == Export(ws["source"])
                          live == CommitWorkspace(bundle, ws["target"], store["target"], now)
                          preflight == Preflight(bundle, ws["target"], store["target"], now)
                      IN  /\ Verified(live) /\ live.w = ws["target"] /\ live.imported = 0
                          /\ ~preflight.failed <=> Reconstructible(ws["target"], now)
                          /\ ~preflight.failed => preflight.conflicts = <<>> /\ preflight.imported = 0
    BY DEF ReimportReplays
  <2>1. PICK w, artifacts :
          /\ w = ws["target"] /\ Sound(w) /\ artifacts = store["target"] /\ w.active # NoPolicy
          /\ WorkspaceVerifies(w, artifacts)
    BY <1>1 DEF ExchangeInv, Sides, Exportable
  <2>2. PICK src : src = ws["source"] /\ Sound(src) /\ Retraced(src) /\ src.active # NoPolicy
    BY <1>1 DEF ExchangeInv, SourceRetraced, Sides, Exportable
  <2>3. PICK bundle : bundle = Export(w) /\ bundle = Export(src)
    BY <2>1, <2>2
  <2>4. PICK t \in Times : t = now
    BY <1>1 DEF ExchangeInv, TypeOK, Times
  <2>5. PICK live : live = CommitWorkspace(bundle, w, artifacts, t)
    OBVIOUS
  <2>6. Verified(live) /\ live.w = w /\ live.imported = 0
    <3>1. live \in Held(w)
      BY <2>1, <2>3, <2>5, HeldBundleReplays
    <3> QED
      BY <3>1 DEF Held, Verified
  <2>7. PICK preflight : preflight = Preflight(bundle, w, artifacts, t)
    OBVIOUS
  <2>8. PICK clone : clone = CommitWorkspace(bundle, EmptyWorkspace, bundle.artifacts, t)
    OBVIOUS
  <2>9. /\ ~preflight.failed <=> Transferable(bundle, artifacts) /\ Verified(clone)
        /\ ~preflight.failed => preflight.conflicts = <<>> /\ preflight.imported = 0
    BY <2>1, <2>3, <2>4, <2>7, <2>8, PreflightOfOwn
  <2>10. Records(w.log) = Records(src.log)
    <3>1. bundle.records = Records(w.log) /\ bundle.records = Records(src.log)
      BY <2>1, <2>2, <2>3, BundleTyped
    <3> QED
      BY <3>1
  <2>11. Verified(clone) <=> Reconstructible(src, t)
    BY <2>2, <2>3, <2>4, <2>8, CloneIff
  <2>12. Reconstructible(w, t) <=> Reconstructible(src, t)
    <3>1. Reconstructible(w, t) => Reconstructible(src, t)
      BY <2>1, <2>2, <2>10, SharedReconstructible
    <3>2. Reconstructible(src, t) => Reconstructible(w, t)
      BY <2>1, <2>2, <2>10, SharedReconstructible
    <3> QED
      BY <3>1, <3>2
  <2>13. WorkspaceVerifies(src, artifacts)
    <3>1. bundle.evidence = {a \in Artifacts : HasEvidence(w, a)}
      BY <2>3 DEF Export
    <3>2. bundle.evidence = {a \in Artifacts : HasEvidence(src, a)}
      BY <2>3 DEF Export
    <3> QED
      BY <2>1, <3>1, <3>2 DEF WorkspaceVerifies
  <2>14. Reconstructible(src, t) => Transferable(bundle, artifacts)
    BY <2>2, <2>3, <2>13, CloneTransfers
  <2>15. ~preflight.failed <=> Reconstructible(w, t)
    BY <2>9, <2>11, <2>12, <2>14
  <2> QED
    BY <2>1, <2>2, <2>3, <2>4, <2>5, <2>6, <2>7, <2>9, <2>15, Zenon
<1>2. ExchangeInv /\ [Next]_vars => ExchangeInv'
  BY ExchangeStep
<1>3. ExchangeInv /\ SourceRetraced /\ [Next]_vars => SourceRetraced'
  BY RetracedStep
<1> QED
  BY ExchangeInit, RetracedInit, <1>1, <1>2, <1>3, PTL DEF Spec
=============================================================================
