------------------------- MODULE RuntimeStoreProofs -------------------------
(* Theorems about RuntimeStore, for every value of its constants. *)
EXTENDS RuntimeStore, WellFoundedInduction, TLAPS

(***************************************************************************)
(* The inductive invariant.                                                *)
(*                                                                         *)
(* A secret that the memory or the snapshot refers to is accounted for:    *)
(* its row is there, its insertion is still among the jobs of a process,   *)
(* or it has failed.                                                       *)
(***************************************************************************)
Secrets(writes) == {writes[i].id : i \in {k \in DOMAIN writes : writes[k].secret}}

Accounted ==
    secretRows \cup missed \cup UNION {Inserting(chain[p]) : p \in Processes}

\* What a process has in each phase; with the lock it is the only one.
ProcessOK(p) ==
    /\ phase[p] # "down" => lock = p
    /\ phase[p] # "up" => chain[p] = <<>> /\ statement[p] = NotSent
    /\ phase[p] \in {"down", "locked"} => log[p] = <<>>
    /\ phase[p] = "hydrated" => log[p] = row
    /\ phase[p] = "up" => /\ IsPrefix(row, log[p])
                          /\ Secrets(log[p]) \subseteq known[p] \cup missed
    /\ Secrets(log[p]) \subseteq Accounted

\* The statement on its way is that of the first job; a snapshot is one that
\* the row leads to, and that the memory has led on from.
StatementOK(p) ==
    /\ statement[p].kind # "none" =>
            /\ chain[p] # <<>>
            /\ Head(chain[p]).kind = statement[p].kind
            /\ statement[p].kind = "secret" =>
                    Head(chain[p]).id = statement[p].id
    /\ statement[p].kind = "snapshot" =>
            /\ IsPrefix(row, statement[p].log)
            /\ IsPrefix(statement[p].log, log[p])

IInv ==
    /\ TypeOK
    /\ \A p \in Processes : ProcessOK(p) /\ StatementOK(p)
    /\ Secrets(row) \subseteq Accounted

-----------------------------------------------------------------------------
(* Prefixes, and the secrets of writes and of jobs *)

LEMMA PrefixSelf ==
    ASSUME NEW s \in Seq(Write)
    PROVE  IsPrefix(s, s) /\ IsPrefix(<<>>, s)
BY DEF IsPrefix

LEMMA PrefixAppend ==
    ASSUME NEW s \in Seq(Write), NEW t \in Seq(Write), IsPrefix(s, t),
           NEW w \in Write
    PROVE  IsPrefix(s, Append(t, w))
<1>1. /\ Len(s) <= Len(t) /\ Len(s) \in Nat /\ Len(t) \in Nat
      /\ SubSeq(s, 1, Len(s)) = SubSeq(t, 1, Len(s))
  BY DEF IsPrefix
<1>2. SubSeq(Append(t, w), 1, Len(s)) = SubSeq(t, 1, Len(s))
  BY <1>1
<1> QED
  BY <1>1, <1>2 DEF IsPrefix

LEMMA PrefixElements ==
    ASSUME NEW s \in Seq(Write), NEW t \in Seq(Write), IsPrefix(s, t)
    PROVE  /\ DOMAIN s \subseteq DOMAIN t
           /\ \A i \in DOMAIN s : s[i] = t[i]
<1>1. /\ Len(s) <= Len(t) /\ Len(s) \in Nat /\ Len(t) \in Nat
      /\ SubSeq(s, 1, Len(s)) = SubSeq(t, 1, Len(s))
  BY DEF IsPrefix
<1>2. ASSUME NEW i \in 1 .. Len(s)
      PROVE  s[i] = t[i]
  <2>1. SubSeq(s, 1, Len(s))[i] = s[i] /\ SubSeq(t, 1, Len(s))[i] = t[i]
    BY <1>1
  <2> QED
    BY <1>1, <2>1
<1> QED
  BY <1>1, <1>2

LEMMA SecretsOfPrefix ==
    ASSUME NEW s \in Seq(Write), NEW t \in Seq(Write), IsPrefix(s, t)
    PROVE  Secrets(s) \subseteq Secrets(t)
BY PrefixElements DEF Secrets

LEMMA SecretsOfNone == Secrets(<<>>) = {}
BY DEF Secrets

LEMMA SecretsAppend ==
    ASSUME NEW s \in Seq(Write), NEW w \in Write
    PROVE  Secrets(Append(s, w))
                = Secrets(s) \cup (IF w.secret THEN {w.id} ELSE {})
<1> DEFINE t == Append(s, w)
           n == Len(s) + 1
<1>1. /\ Len(s) \in Nat /\ DOMAIN s = 1 .. Len(s) /\ n \notin DOMAIN s
      /\ DOMAIN t = DOMAIN s \cup {n} /\ t[n] = w
      /\ \A i \in DOMAIN s : t[i] = s[i]
  OBVIOUS
<1> HIDE DEF t, n
<1>2. {k \in DOMAIN t : t[k].secret}
        = {k \in DOMAIN s : s[k].secret} \cup (IF w.secret THEN {n} ELSE {})
  BY <1>1
<1> QED
  BY <1>1, <1>2 DEF Secrets, t

\* The secrets to be inserted, told element by element.
LEMMA InsertingElements ==
    ASSUME NEW jobs \in Seq(Job), NEW n
    PROVE  n \in Inserting(jobs) <=>
                \E i \in 1 .. Len(jobs) : jobs[i].kind = "secret" /\ jobs[i].id = n
BY DEF Inserting, Range

LEMMA InsertingNothing == Inserting(<<>>) = {}
BY DEF Inserting, Range

LEMMA InsertingOne ==
    ASSUME NEW j \in Job
    PROVE  Inserting(<<j>>) = IF j.kind = "secret" THEN {j.id} ELSE {}
<1> DEFINE one == <<j>>
<1>1. one \in Seq(Job) /\ 1 .. Len(one) = {1} /\ one[1] = j
  OBVIOUS
<1> HIDE DEF one
<1>2. ASSUME NEW n
      PROVE  n \in Inserting(one) <=> j.kind = "secret" /\ j.id = n
  BY <1>1, InsertingElements
<1>3. Inserting(one) = IF j.kind = "secret" THEN {j.id} ELSE {}
  BY <1>2
<1> QED
  BY <1>3 DEF one

LEMMA JobsAreJobs ==
    /\ Snapshot \in Job /\ Snapshot.kind = "snapshot"
    /\ \A n \in Nat : /\ InsertSecret(n) \in Job
                      /\ InsertSecret(n).kind = "secret" /\ InsertSecret(n).id = n
BY DEF Snapshot, InsertSecret, Job

LEMMA InsertingMutation ==
    ASSUME NEW jobs \in Seq(Job)
    PROVE  Inserting(Append(jobs, Snapshot)) = Inserting(jobs)
<1> DEFINE more == Append(jobs, Snapshot)
<1>1. /\ more \in Seq(Job) /\ Len(more) = Len(jobs) + 1 /\ Len(jobs) \in Nat
      /\ more[Len(jobs) + 1] = Snapshot
      /\ \A i \in 1 .. Len(jobs) : more[i] = jobs[i]
  BY JobsAreJobs
<1> HIDE DEF more
<1>2. ASSUME NEW n PROVE n \in Inserting(more) <=> n \in Inserting(jobs)
  <2>1. 1 .. Len(more) = (1 .. Len(jobs)) \cup {Len(jobs) + 1}
    BY <1>1
  <2>2. Snapshot.kind # "secret"
    BY JobsAreJobs
  <2> QED
    BY <1>1, <2>1, <2>2, InsertingElements
<1> QED
  BY <1>2 DEF more

LEMMA InsertingPut ==
    ASSUME NEW jobs \in Seq(Job), NEW m \in Nat
    PROVE  Inserting(jobs \o <<InsertSecret(m), Snapshot>>)
                = Inserting(jobs) \cup {m}
<1> DEFINE more == jobs \o <<InsertSecret(m), Snapshot>>
           k == Len(jobs)
<1>1. /\ more \in Seq(Job) /\ Len(more) = k + 2 /\ k \in Nat
      /\ more[k + 1] = InsertSecret(m) /\ more[k + 2] = Snapshot
      /\ \A i \in 1 .. k : more[i] = jobs[i]
  BY JobsAreJobs
<1> HIDE DEF more
<1>2. ASSUME NEW n PROVE n \in Inserting(more) <=> n \in Inserting(jobs) \/ n = m
  <2>1. 1 .. Len(more) = (1 .. k) \cup {k + 1, k + 2}
    BY <1>1
  <2>2. /\ Snapshot.kind # "secret" /\ InsertSecret(m).kind = "secret"
        /\ InsertSecret(m).id = m
    BY JobsAreJobs
  <2> QED
    BY <1>1, <2>1, <2>2, InsertingElements
<1> QED
  BY <1>2 DEF more

LEMMA InsertingHead ==
    ASSUME NEW jobs \in Seq(Job), jobs # <<>>
    PROVE  /\ Head(jobs) \in Job /\ Tail(jobs) \in Seq(Job)
           /\ Inserting(jobs) = Inserting(Tail(jobs)) \cup Inserting(<<Head(jobs)>>)
<1>1. /\ Head(jobs) \in Job /\ Tail(jobs) \in Seq(Job)
      /\ Len(jobs) \in Nat /\ Len(jobs) >= 1
      /\ Len(Tail(jobs)) = Len(jobs) - 1
      /\ Head(jobs) = jobs[1]
      /\ \A i \in 1 .. Len(Tail(jobs)) : Tail(jobs)[i] = jobs[i + 1]
  OBVIOUS
<1>2. ASSUME NEW n
      PROVE  n \in Inserting(jobs) <=>
                n \in Inserting(Tail(jobs)) \/ n \in Inserting(<<Head(jobs)>>)
  <2> DEFINE P(j) == j.kind = "secret" /\ j.id = n
  <2>1. n \in Inserting(<<Head(jobs)>>) <=> P(jobs[1])
    BY <1>1, InsertingOne
  <2>2. n \in Inserting(Tail(jobs)) <=>
            \E i \in 1 .. Len(jobs) - 1 : P(jobs[i + 1])
    <3> DEFINE rest == Tail(jobs)
    <3>1. /\ rest \in Seq(Job) /\ 1 .. Len(rest) = 1 .. Len(jobs) - 1
          /\ \A i \in 1 .. Len(rest) : rest[i] = jobs[i + 1]
      BY <1>1
    <3> HIDE DEF rest
    <3>2. n \in Inserting(rest) <=>
                \E i \in 1 .. Len(rest) : P(rest[i])
      BY <3>1, InsertingElements
    <3> HIDE DEF P
    <3> QED
      BY <3>1, <3>2 DEF rest
  <2>3. n \in Inserting(jobs) <=> \E i \in 1 .. Len(jobs) : P(jobs[i])
    BY InsertingElements
  <2>4. (\E i \in 1 .. Len(jobs) : P(jobs[i])) <=>
            P(jobs[1]) \/ \E i \in 1 .. Len(jobs) - 1 : P(jobs[i + 1])
    <3> HIDE DEF P
    <3>1. ASSUME NEW i \in 1 .. Len(jobs), P(jobs[i]), i # 1
          PROVE  \E k \in 1 .. Len(jobs) - 1 : P(jobs[k + 1])
      <4>1. i - 1 \in 1 .. Len(jobs) - 1 /\ (i - 1) + 1 = i
        BY <1>1, <3>1
      <4> QED
        BY <3>1, <4>1
    <3>2. ASSUME NEW k \in 1 .. Len(jobs) - 1
          PROVE  k + 1 \in 1 .. Len(jobs)
      BY <1>1
    <3>3. 1 \in 1 .. Len(jobs)
      BY <1>1
    <3> QED
      BY <3>1, <3>2, <3>3
  <2> HIDE DEF P
  <2> QED
    BY <2>1, <2>2, <2>3, <2>4
<1> QED
  BY <1>1, <1>2

\* All secrets stay accounted for when those of one process's jobs do.
LEMMA StillAccounted ==
    ASSUME NEW p \in Processes, NEW c, chain \in [Processes -> Seq(Job)],
           chain' = [chain EXCEPT ![p] = c],
           secretRows \cup missed \cup Inserting(chain[p])
                \subseteq secretRows' \cup missed' \cup Inserting(c)
    PROVE  Accounted \subseteq Accounted'
<1>1. chain'[p] = c /\ \A q \in Processes \ {p} : chain'[q] = chain[q]
  OBVIOUS
<1>2. ASSUME NEW n \in Accounted PROVE n \in Accounted'
  <2>1. CASE n \in secretRows \cup missed \cup Inserting(chain[p])
    BY <1>1, <2>1 DEF Accounted
  <2>2. CASE n \notin secretRows \cup missed \cup Inserting(chain[p])
    <3>1. PICK q \in Processes : n \in Inserting(chain[q])
      BY <2>2, <1>2 DEF Accounted
    <3>2. chain'[q] = chain[q]
      BY <1>1, <2>2, <3>1
    <3> QED
      BY <3>1, <3>2 DEF Accounted
  <2> QED
    BY <2>1, <2>2
<1> QED
  BY <1>2

-----------------------------------------------------------------------------
(* Steps *)

LEMMA NotSentOK ==
    NotSent \in Statement /\ NotSent.kind = "none" /\ <<>> \in Seq(Write)
BY DEF NotSent, Statement

LEMMA InitIInv == Init => IInv
<1> SUFFICES ASSUME Init PROVE IInv
  OBVIOUS
<1>1. TypeOK
  BY NotSentOK, MaxWritesAssumption DEF Init, TypeOK
<1>2. Secrets(<<>>) = {}
  BY SecretsOfNone
<1>3. \A p \in Processes : ProcessOK(p) /\ StatementOK(p)
  BY <1>2, NotSentOK, NobodyAssumption DEF Init, ProcessOK, StatementOK
<1> QED
  BY <1>1, <1>2, <1>3 DEF IInv, Init

\* The lock excludes: with one process at it, the others are down.
LEMMA Alone ==
    ASSUME IInv, NEW p \in Processes, lock \in {p, Nobody}
    PROVE  \A q \in Processes \ {p} : phase[q] = "down"
BY NobodyAssumption DEF IInv, ProcessOK

LEMMA RunningHasLock ==
    ASSUME IInv, NEW p \in Processes, phase[p] # "down"
    PROVE  lock = p
BY DEF IInv, ProcessOK

\* A step of one process keeps the invariant when it keeps what concerns that
\* process, and when all secrets stay accounted for.
LEMMA OneProcess ==
    ASSUME IInv, NEW p \in Processes, lock \in {p, Nobody}, TypeOK',
           \A q \in Processes \ {p} :
                /\ phase'[q] = phase[q] /\ log'[q] = log[q]
                /\ chain'[q] = chain[q] /\ statement'[q] = statement[q],
           Accounted \subseteq Accounted',
           ProcessOK(p)', StatementOK(p)',
           Secrets(row') \subseteq Accounted'
    PROVE  IInv'
<1>1. ASSUME NEW q \in Processes \ {p}
      PROVE  ProcessOK(q)' /\ StatementOK(q)'
  <2>1. /\ phase'[q] = "down" /\ log'[q] = <<>> /\ chain'[q] = <<>>
        /\ statement'[q] = NotSent
    BY <1>1, Alone DEF IInv, ProcessOK
  <2>2. ProcessOK(q)'
    BY <2>1, SecretsOfNone DEF ProcessOK
  <2>3. StatementOK(q)'
    BY <2>1, NotSentOK DEF StatementOK
  <2> QED
    BY <2>2, <2>3
<1> QED
  BY <1>1 DEF IInv

LEMMA AcquireLockIInv ==
    ASSUME IInv, NEW p \in Processes, AcquireLock(p)
    PROVE  IInv'
<1> USE DEF AcquireLock
<1>1. TypeOK'
  BY DEF IInv, TypeOK
<1>2. Accounted' = Accounted
  BY DEF Accounted
<1>3. ProcessOK(p)'
  BY <1>2, SecretsOfNone DEF IInv, TypeOK, ProcessOK
<1>4. StatementOK(p)'
  BY NotSentOK DEF IInv, ProcessOK, StatementOK
<1> QED
  BY <1>1, <1>2, <1>3, <1>4, OneProcess DEF IInv, TypeOK

LEMMA HydrateIInv ==
    ASSUME IInv, NEW p \in Processes, Hydrate(p)
    PROVE  IInv'
<1> USE DEF Hydrate
<1>1. TypeOK'
  BY DEF IInv, TypeOK
<1>2. Accounted' = Accounted
  BY DEF Accounted
<1>3. lock = p
  BY RunningHasLock
<1>4. ProcessOK(p)'
  BY <1>2, <1>3 DEF IInv, TypeOK, ProcessOK
<1>5. StatementOK(p)'
  BY NotSentOK DEF IInv, ProcessOK, StatementOK
<1> QED
  BY <1>1, <1>2, <1>3, <1>4, <1>5, OneProcess DEF IInv, TypeOK

\* No insertion is pending when a process reads the secrets.
LEMMA LoadSecretsIInv ==
    ASSUME IInv, NEW p \in Processes, LoadSecrets(p)
    PROVE  IInv'
<1> USE DEF LoadSecrets
<1>1. TypeOK'
  BY DEF IInv, TypeOK
<1>2. Accounted' = Accounted
  BY DEF Accounted
<1>3. lock = p
  BY RunningHasLock
<1>4. \A q \in Processes : chain[q] = <<>>
  BY <1>3, Alone DEF IInv, ProcessOK
<1>5. Accounted = secretRows \cup missed
  BY <1>4, InsertingNothing DEF Accounted
<1>6. log[p] = row /\ row \in Seq(Write)
  BY DEF IInv, TypeOK, ProcessOK
<1>7. Secrets(log'[p]) \subseteq known'[p] \cup missed'
  <2>1. CASE row = <<>>
    BY <1>6, <2>1, SecretsOfNone
  <2>2. CASE row # <<>>
    <3>1. known'[p] = secretRows
      BY <2>2 DEF IInv, TypeOK
    <3> QED
      BY <1>5, <1>6, <3>1 DEF IInv
  <2> QED
    BY <2>1, <2>2
<1>8. ProcessOK(p)'
  BY <1>2, <1>3, <1>6, <1>7, PrefixSelf DEF IInv, TypeOK, ProcessOK
<1>9. StatementOK(p)'
  BY NotSentOK DEF IInv, ProcessOK, StatementOK
<1> QED
  BY <1>1, <1>2, <1>3, <1>8, <1>9, OneProcess DEF IInv, TypeOK

\* Types of what a process that serves has.
LEMMA UpFacts ==
    ASSUME IInv, NEW p \in Processes, phase[p] = "up"
    PROVE  /\ lock = p
           /\ log[p] \in Seq(Write) /\ row \in Seq(Write)
           /\ known[p] \subseteq Nat
           /\ chain \in [Processes -> Seq(Job)] /\ chain[p] \in Seq(Job)
           /\ statement[p] \in Statement
           /\ IsPrefix(row, log[p])
           /\ Secrets(log[p]) \subseteq known[p] \cup missed
           /\ Secrets(log[p]) \subseteq Accounted
           /\ issued \in Nat /\ issued <= MaxWrites
<1>1. issued \in Nat /\ issued <= MaxWrites
  BY MaxWritesAssumption DEF IInv, TypeOK
<1> QED
  BY <1>1 DEF IInv, TypeOK, ProcessOK

\* A write of the memory, with the jobs that it appends.
LEMMA WriteIInv ==
    ASSUME IInv, NEW p \in Processes, phase[p] = "up", issued < MaxWrites,
           NEW secret \in BOOLEAN,
           issued' = issued + 1,
           log' = [log EXCEPT
                    ![p] = Append(@, [id |-> issued', secret |-> secret])],
           known' = IF secret THEN [known EXCEPT ![p] = @ \cup {issued'}]
                              ELSE known,
           chain' = [chain EXCEPT ![p] =
                        IF secret THEN @ \o <<InsertSecret(issued'), Snapshot>>
                                  ELSE Append(@, Snapshot)],
           UNCHANGED <<phase, lock, statement, row, secretRows, missed>>
    PROVE  IInv'
<1> DEFINE w == [id |-> issued', secret |-> secret]
           c == IF secret THEN chain[p] \o <<InsertSecret(issued'), Snapshot>>
                          ELSE Append(chain[p], Snapshot)
<1>1. /\ lock = p /\ log[p] \in Seq(Write) /\ row \in Seq(Write)
      /\ chain \in [Processes -> Seq(Job)] /\ chain[p] \in Seq(Job)
      /\ statement[p] \in Statement /\ IsPrefix(row, log[p])
      /\ Secrets(log[p]) \subseteq known[p] \cup missed
      /\ Secrets(log[p]) \subseteq Accounted
      /\ issued \in Nat /\ issued <= MaxWrites /\ issued' \in Nat
  BY UpFacts
<1>2. w \in Write /\ w.secret = secret /\ w.id = issued'
  BY <1>1 DEF Write
<1> HIDE DEF w
<1>3. log' = [log EXCEPT ![p] = Append(log[p], w)]
      /\ log'[p] = Append(log[p], w) /\ log'[p] \in Seq(Write)
  BY <1>1, <1>2 DEF w, IInv, TypeOK
<1>4. c \in Seq(Job) /\ chain' = [chain EXCEPT ![p] = c] /\ chain'[p] = c
  BY <1>1, JobsAreJobs
<1>5. TypeOK'
  <2>1. issued' \in 0 .. MaxWrites
    BY <1>1, MaxWritesAssumption
  <2>2. known' \in [Processes -> SUBSET Nat]
    BY <1>1 DEF IInv, TypeOK
  <2>3. log' \in [Processes -> Seq(Write)]
    BY <1>3 DEF IInv, TypeOK
  <2>4. chain' \in [Processes -> Seq(Job)]
    BY <1>1, <1>4
  <2> QED
    BY <2>1, <2>2, <2>3, <2>4 DEF IInv, TypeOK
<1>6. Inserting(c) = Inserting(chain[p]) \cup (IF secret THEN {issued'} ELSE {})
  <2>1. CASE secret
    BY <1>1, <2>1, InsertingPut
  <2>2. CASE ~secret
    BY <1>1, <2>2, InsertingMutation
  <2> QED
    BY <2>1, <2>2
<1>7. c # <<>> /\ (chain[p] # <<>> => Head(c) = Head(chain[p]))
  <2>1. CASE secret
    BY <1>1, <2>1, JobsAreJobs
  <2>2. CASE ~secret
    BY <1>1, <2>2, JobsAreJobs
  <2> QED
    BY <2>1, <2>2
<1> HIDE DEF c
<1>8. Accounted \subseteq Accounted' /\ Inserting(c) \subseteq Accounted'
  <2>1. Accounted \subseteq Accounted'
    BY <1>1, <1>4, <1>6, StillAccounted
  <2> QED
    BY <2>1, <1>4 DEF Accounted
<1>9. Secrets(log'[p]) = Secrets(log[p]) \cup (IF secret THEN {issued'} ELSE {})
  BY <1>1, <1>2, <1>3, SecretsAppend
<1>10. ProcessOK(p)'
  <2>1. IsPrefix(row', log'[p])
    BY <1>1, <1>2, <1>3, PrefixAppend
  <2>2. Secrets(log'[p]) \subseteq Accounted'
    BY <1>1, <1>6, <1>8, <1>9
  <2>3. known[p] \subseteq known'[p] /\ (secret => issued' \in known'[p])
    BY DEF IInv, TypeOK
  <2>4. Secrets(log'[p]) \subseteq known'[p] \cup missed'
    BY <1>1, <1>9, <2>3
  <2> QED
    BY <1>1, <2>1, <2>2, <2>4 DEF ProcessOK
<1>11. StatementOK(p)'
  <2>1. StatementOK(p)
    BY DEF IInv
  <2>2. statement[p].kind = "snapshot" => IsPrefix(statement[p].log, log'[p])
    <3>1. statement[p].log \in Seq(Write)
      BY <1>1 DEF Statement
    <3> QED
      BY <1>1, <1>2, <1>3, <2>1, <3>1, PrefixAppend DEF StatementOK
  <2> QED
    BY <1>4, <1>7, <2>1, <2>2 DEF StatementOK
<1>12. \A q \in Processes \ {p} :
            /\ phase'[q] = phase[q] /\ log'[q] = log[q]
            /\ chain'[q] = chain[q] /\ statement'[q] = statement[q]
  BY <1>3, <1>4 DEF IInv, TypeOK
<1> QED
  BY <1>1, <1>5, <1>8, <1>10, <1>11, <1>12, OneProcess DEF IInv

LEMMA MutateIInv ==
    ASSUME IInv, NEW p \in Processes, Mutate(p)
    PROVE  IInv'
BY WriteIInv DEF Mutate

LEMMA PutSecretIInv ==
    ASSUME IInv, NEW p \in Processes, PutSecret(p)
    PROVE  IInv'
BY WriteIInv DEF PutSecret

LEMMA SendIInv ==
    ASSUME IInv, NEW p \in Processes, Send(p)
    PROVE  IInv'
<1> USE DEF Send
<1>1. /\ lock = p /\ log[p] \in Seq(Write) /\ row \in Seq(Write)
      /\ chain[p] \in Seq(Job) /\ IsPrefix(row, log[p])
  BY UpFacts
<1>2. Head(chain[p]) \in Job
  BY <1>1
<1>3. /\ statement'[p].kind = Head(chain[p]).kind
      /\ statement'[p].kind = "snapshot" =>
            statement'[p].id = 0 /\ statement'[p].log = log[p]
      /\ statement'[p].kind = "secret" => statement'[p].id = Head(chain[p]).id
      /\ statement'[p] \in Statement
  BY <1>1, <1>2 DEF IInv, TypeOK, Statement, Job
<1>4. TypeOK'
  BY <1>3 DEF IInv, TypeOK
<1>5. Accounted' = Accounted
  BY DEF Accounted
<1>6. ProcessOK(p)'
  BY <1>5 DEF IInv, ProcessOK
<1>7. StatementOK(p)'
  BY <1>1, <1>2, <1>3, PrefixSelf DEF StatementOK, Job
<1> QED
  BY <1>1, <1>4, <1>5, <1>6, <1>7, OneProcess DEF IInv, TypeOK

\* The jobs of a process, the first one and the others.
LEMMA FirstJob ==
    ASSUME IInv, NEW p \in Processes, phase[p] = "up",
           statement[p].kind # "none"
    PROVE  /\ chain[p] # <<>> /\ Tail(chain[p]) \in Seq(Job)
           /\ Head(chain[p]) \in Job
           /\ Inserting(chain[p])
                = Inserting(Tail(chain[p])) \cup Inserting(<<Head(chain[p])>>)
           /\ Inserting(<<Head(chain[p])>>)
                = IF statement[p].kind = "secret" THEN {statement[p].id} ELSE {}
<1>1. chain[p] # <<>> /\ chain[p] \in Seq(Job)
  BY UpFacts DEF IInv, StatementOK
<1>2. Head(chain[p]) \in Job
  BY <1>1, InsertingHead
<1>3. Inserting(<<Head(chain[p])>>)
        = IF Head(chain[p]).kind = "secret" THEN {Head(chain[p]).id} ELSE {}
  BY <1>2, InsertingOne
<1>4. /\ Head(chain[p]).kind = statement[p].kind
      /\ statement[p].kind = "secret" => Head(chain[p]).id = statement[p].id
  BY DEF IInv, StatementOK
<1> QED
  BY <1>1, <1>2, <1>3, <1>4, InsertingHead

\* What Postgres has after it has executed a statement.
LEMMA ExecutedRow ==
    ASSUME IInv, NEW p \in Processes, statement[p].kind # "none", Executed(p)
    PROVE  /\ row' \in Seq(Write) /\ secretRows' \subseteq Nat
           /\ secretRows \subseteq secretRows'
           /\ statement[p].kind = "secret" => statement[p].id \in secretRows'
           /\ IsPrefix(row, row') /\ IsPrefix(row', log[p])
           /\ Secrets(row') \subseteq Accounted
<1>1. phase[p] = "up"
  BY NotSentOK DEF IInv, ProcessOK
<1>2. /\ log[p] \in Seq(Write) /\ row \in Seq(Write)
      /\ statement[p] \in Statement /\ IsPrefix(row, log[p])
      /\ Secrets(log[p]) \subseteq Accounted /\ secretRows \subseteq Nat
      /\ StatementOK(p)
  BY <1>1, UpFacts DEF IInv, TypeOK
<1>3. statement[p].log \in Seq(Write) /\ statement[p].id \in Nat
      /\ statement[p].kind \in {"secret", "snapshot"}
  BY <1>2 DEF Statement
<1>4. /\ row' \in Seq(Write)
      /\ IsPrefix(row, row') /\ IsPrefix(row', log[p])
  BY <1>2, <1>3, PrefixSelf DEF Executed, StatementOK
<1>5. Secrets(row') \subseteq Accounted
  BY <1>2, <1>4, SecretsOfPrefix
<1> QED
  BY <1>2, <1>3, <1>4, <1>5 DEF Executed

\* The first job has settled, whatever came of it, and the process goes on.
LEMMA JobDone ==
    ASSUME IInv, NEW p \in Processes, phase[p] = "up",
           statement[p].kind # "none",
           statement' = [statement EXCEPT ![p] = NotSent],
           chain' = [chain EXCEPT ![p] = Tail(@)],
           row' \in Seq(Write), IsPrefix(row', log[p]),
           Secrets(row') \subseteq Accounted,
           secretRows \subseteq secretRows', secretRows' \subseteq Nat,
           missed \subseteq missed', missed' \subseteq Nat,
           Inserting(<<Head(chain[p])>>) \subseteq secretRows' \cup missed',
           UNCHANGED <<phase, lock, log, known, issued>>
    PROVE  IInv'
<1>1. /\ lock = p /\ chain \in [Processes -> Seq(Job)]
      /\ Secrets(log[p]) \subseteq known[p] \cup missed
      /\ Secrets(log[p]) \subseteq Accounted
  BY UpFacts
<1>2. /\ chain' = [chain EXCEPT ![p] = Tail(chain[p])]
      /\ Tail(chain[p]) \in Seq(Job)
      /\ Inserting(chain[p])
            = Inserting(Tail(chain[p])) \cup Inserting(<<Head(chain[p])>>)
  BY FirstJob
<1>3. statement'[p] = NotSent
  BY DEF IInv, TypeOK
<1>4. TypeOK'
  BY <1>1, <1>2, NotSentOK DEF IInv, TypeOK
<1>5. Accounted \subseteq Accounted'
  BY <1>1, <1>2, StillAccounted
<1>6. ProcessOK(p)'
  BY <1>1, <1>5 DEF ProcessOK
<1>7. StatementOK(p)'
  BY <1>3, NotSentOK DEF StatementOK
<1>8. \A q \in Processes \ {p} : chain'[q] = chain[q] /\ statement'[q] = statement[q]
  BY <1>1 DEF IInv, TypeOK
<1> QED
  BY <1>1, <1>4, <1>5, <1>6, <1>7, <1>8, OneProcess

LEMMA SettleIInv ==
    ASSUME IInv, NEW p \in Processes, Settle(p)
    PROVE  IInv'
<1>1. /\ phase[p] = "up" /\ statement[p].kind # "none" /\ Executed(p)
      /\ statement' = [statement EXCEPT ![p] = NotSent]
      /\ chain' = [chain EXCEPT ![p] = Tail(@)]
      /\ UNCHANGED <<phase, lock, log, known, issued, missed>>
  BY DEF Settle
<1>2. Inserting(<<Head(chain[p])>>) \subseteq secretRows'
  BY <1>1, FirstJob, ExecutedRow
<1>3. missed' \subseteq Nat
  BY <1>1 DEF IInv, TypeOK
<1> QED
  BY <1>1, <1>2, <1>3, ExecutedRow, JobDone

\* The process has gone; what it was to insert is there or has failed.
LEMMA GoneIInv ==
    ASSUME IInv, NEW p \in Processes, Running(p), Gone(p),
           lock' \in {p, Nobody},
           row' \in Seq(Write), Secrets(row') \subseteq Accounted,
           secretRows \subseteq secretRows', secretRows' \subseteq Nat,
           missed \subseteq missed', missed' \subseteq Nat,
           Inserting(chain[p]) \subseteq secretRows' \cup missed',
           UNCHANGED issued
    PROVE  IInv'
<1>1. lock = p
  BY RunningHasLock DEF Running
<1>2. /\ phase'[p] = "down" /\ log'[p] = <<>> /\ chain'[p] = <<>>
      /\ statement'[p] = NotSent
      /\ \A q \in Processes \ {p} :
            /\ phase'[q] = phase[q] /\ log'[q] = log[q]
            /\ chain'[q] = chain[q] /\ statement'[q] = statement[q]
  BY DEF Gone, IInv, TypeOK
<1>3. TypeOK'
  <2>1. <<>> \in Seq(Job) /\ {} \in SUBSET Nat
    OBVIOUS
  <2>2. /\ phase' \in [Processes -> {"down", "locked", "hydrated", "up"}]
        /\ log' \in [Processes -> Seq(Write)]
        /\ known' \in [Processes -> SUBSET Nat]
        /\ chain' \in [Processes -> Seq(Job)]
        /\ statement' \in [Processes -> Statement]
    BY <2>1, NotSentOK DEF Gone, IInv, TypeOK
  <2> QED
    BY <2>2 DEF IInv, TypeOK
<1>4. Accounted \subseteq Accounted'
  <2>1. chain' = [chain EXCEPT ![p] = <<>>] /\ chain \in [Processes -> Seq(Job)]
    BY DEF Gone, IInv, TypeOK
  <2> QED
    BY <2>1, StillAccounted
<1>5. ProcessOK(p)'
  BY <1>2, SecretsOfNone DEF ProcessOK
<1>6. StatementOK(p)'
  BY <1>2, NotSentOK DEF StatementOK
<1> QED
  BY <1>1, <1>2, <1>3, <1>4, <1>5, <1>6, OneProcess

LEMMA InsertingType ==
    ASSUME IInv, NEW p \in Processes
    PROVE  Inserting(chain[p]) \subseteq Nat
<1>1. chain[p] \in Seq(Job)
  BY DEF IInv, TypeOK
<1>2. ASSUME NEW i \in 1 .. Len(chain[p]) PROVE chain[p][i].id \in Nat
  <2>1. chain[p][i] \in Job
    BY <1>1
  <2> QED
    BY <2>1 DEF Job
<1> QED
  BY <1>1, <1>2, InsertingElements

LEMMA StatementFailsIInv ==
    ASSUME IInv, NEW p \in Processes, StatementFails(p)
    PROVE  IInv'
<1>1. /\ phase[p] = "up" /\ statement[p].kind # "none"
      /\ UNCHANGED <<lock, row, secretRows, issued>>
  BY DEF StatementFails
<1>2. /\ row \in Seq(Write) /\ IsPrefix(row, log[p]) /\ lock = p
  BY <1>1, UpFacts
<1>3. /\ Secrets(row) \subseteq Accounted /\ secretRows \subseteq Nat
      /\ missed \subseteq Nat /\ Inserting(chain[p]) \subseteq Nat
  BY InsertingType DEF IInv, TypeOK
<1>4. CASE Len(chain[p]) > 1
  <2>1. /\ statement' = [statement EXCEPT ![p] = NotSent]
        /\ chain' = [chain EXCEPT ![p] = Tail(@)]
        /\ UNCHANGED <<phase, log, known>>
        /\ missed' = missed \cup Inserting(<<Head(chain[p])>>)
    BY <1>4 DEF StatementFails
  <2>2. Inserting(<<Head(chain[p])>>) \subseteq Nat
    BY <1>1, <1>3, FirstJob
  <2> QED
    BY <1>1, <1>2, <1>3, <2>1, <2>2, JobDone
<1>5. CASE ~(Len(chain[p]) > 1)
  <2>1. Gone(p) /\ missed' = missed \cup Inserting(chain[p])
    BY <1>5 DEF StatementFails
  <2> QED
    BY <1>1, <1>2, <1>3, <2>1, GoneIInv DEF Running
<1> QED
  BY <1>4, <1>5

\* The row after the death of a process: its statement was executed or not.
LEMMA CrashRow ==
    ASSUME IInv, NEW p \in Processes, Crash(p)
    PROVE  /\ row' \in Seq(Write) /\ Secrets(row') \subseteq Accounted
           /\ secretRows \subseteq secretRows' /\ secretRows' \subseteq Nat
           /\ IsPrefix(row, row')
<1>1. /\ row \in Seq(Write) /\ Secrets(row) \subseteq Accounted
      /\ secretRows \subseteq Nat
  BY DEF IInv, TypeOK
<1>2. CASE UNCHANGED <<row, secretRows>>
  BY <1>1, <1>2, PrefixSelf
<1>3. CASE Executed(p) /\ statement[p].kind # "none"
  BY <1>3, ExecutedRow
<1>4. CASE Executed(p) /\ statement[p].kind = "none"
  <2>1. UNCHANGED <<row, secretRows>>
    BY <1>4 DEF Executed
  <2> QED
    BY <2>1, <1>2
<1> QED
  BY <1>2, <1>3, <1>4 DEF Crash

LEMMA CrashIInv ==
    ASSUME IInv, NEW p \in Processes, Crash(p)
    PROVE  IInv'
<1>1. /\ Running(p) /\ Gone(p) /\ UNCHANGED <<lock, issued>>
      /\ missed' = missed \cup (Inserting(chain[p]) \ secretRows')
  BY DEF Crash
<1>2. lock = p
  BY <1>1, RunningHasLock DEF Running
<1>3. missed' \subseteq Nat
  BY <1>1, InsertingType DEF IInv, TypeOK
<1> QED
  BY <1>1, <1>2, <1>3, CrashRow, GoneIInv

LEMMA CloseIInv ==
    ASSUME IInv, NEW p \in Processes, Close(p)
    PROVE  IInv'
<1>1. /\ Running(p) /\ Gone(p) /\ chain[p] = <<>> /\ lock' = Nobody
      /\ UNCHANGED <<row, secretRows, issued, missed>>
  BY DEF Close, Running
<1>2. Inserting(chain[p]) = {}
  BY <1>1, InsertingNothing
<1>3. /\ row \in Seq(Write) /\ Secrets(row) \subseteq Accounted
      /\ secretRows \subseteq Nat /\ missed \subseteq Nat
  BY DEF IInv, TypeOK
<1> QED
  BY <1>1, <1>2, <1>3, GoneIInv

LEMMA SessionEndsIInv ==
    ASSUME IInv, NEW p \in Processes, SessionEnds(p)
    PROVE  IInv'
<1>1. TypeOK'
  BY DEF SessionEnds, IInv, TypeOK
<1>2. Accounted' = Accounted
  BY DEF SessionEnds, Accounted
<1>3. ProcessOK(p)' /\ StatementOK(p)'
  BY <1>2 DEF SessionEnds, Running, IInv, ProcessOK, StatementOK
<1>4. lock = p /\ UNCHANGED <<phase, log, chain, statement, row>>
  BY DEF SessionEnds
<1>5. Secrets(row') \subseteq Accounted'
  BY <1>2, <1>4 DEF IInv
<1> QED
  BY <1>1, <1>2, <1>3, <1>4, <1>5, OneProcess

LEMMA NextIInv == IInv /\ [Next]_vars => IInv'
<1> SUFFICES ASSUME IInv, [Next]_vars PROVE IInv'
  OBVIOUS
<1>1. CASE UNCHANGED vars
  BY <1>1 DEF vars, IInv, TypeOK, ProcessOK, StatementOK, Accounted
<1>2. CASE Next
  <2>1. PICK p \in Processes :
            \/ AcquireLock(p) \/ Hydrate(p) \/ LoadSecrets(p)
            \/ Mutate(p) \/ PutSecret(p)
            \/ Send(p) \/ Settle(p) \/ StatementFails(p)
            \/ Crash(p) \/ Close(p) \/ SessionEnds(p)
    BY <1>2 DEF Next
  <2> QED
    BY <2>1, AcquireLockIInv, HydrateIInv, LoadSecretsIInv, MutateIInv,
       PutSecretIInv, SendIInv, SettleIInv, StatementFailsIInv, CrashIInv,
       CloseIInv, SessionEndsIInv
<1> QED
  BY <1>1, <1>2

LEMMA Invariance == Spec => []IInv
BY InitIInv, NextIInv, PTL DEF Spec

-----------------------------------------------------------------------------
(* What follows from the invariant *)

\* A set of naturals that is not empty has a least element.
LEMMA LeastOf ==
    ASSUME NEW S \in SUBSET Nat, S # {}
    PROVE  \E p \in S : \A q \in S : p <= q
<1>1. PICK m \in S : \A k \in S : <<k, m>> \notin OpToRel(<, Nat)
  BY WFMin, NatLessThanWellFounded, Zenon
<1>2. \A k \in S : ~(k < m)
  BY <1>1, Zenon DEF OpToRel
<1>3. ASSUME NEW k \in S PROVE m <= k
  <2>1. k \in Nat /\ m \in Nat /\ ~(k < m)
    BY <1>1, <1>2
  <2> QED
    BY <2>1
<1> QED
  BY <1>3

\* So has a set of positions in a sequence a greatest one.
LEMMA LastOf ==
    ASSUME NEW n \in Nat, NEW S \in SUBSET (1 .. n), S # {}
    PROVE  \E i \in S : \A j \in S : j <= i
<1> DEFINE T == {n - i : i \in S}
<1>1. T \in SUBSET Nat /\ T # {}
  <2>1. \A i \in S : n - i \in Nat
    OBVIOUS
  <2> QED
    BY <2>1
<1>2. PICK m \in T : \A k \in T : m <= k
  <2> HIDE DEF T
  <2> QED
    BY <1>1, LeastOf
<1>3. PICK i \in S : m = n - i
  OBVIOUS
<1>4. ASSUME NEW j \in S PROVE j <= i
  <2>1. n - i <= n - j
    BY <1>2, <1>3
  <2> QED
    BY <2>1
<1> QED
  BY <1>4

\* The latest secret is one of those written.
LEMMA LatestIsSecret ==
    ASSUME NEW writes \in Seq(Write)
    PROVE  LatestSecret(writes) \in Secrets(writes) \cup {0}
<1> DEFINE secrets == {i \in DOMAIN writes : writes[i].secret}
           last == CHOOSE i \in secrets : \A j \in secrets : j <= i
<1>1. CASE secrets = {}
  BY <1>1 DEF LatestSecret
<1>2. CASE secrets # {}
  <2>1. Len(writes) \in Nat /\ secrets \in SUBSET (1 .. Len(writes))
    OBVIOUS
  <2>2. \E i \in secrets : \A j \in secrets : j <= i
    <3> HIDE DEF secrets
    <3> QED
      BY <1>2, <2>1, LastOf
  <2>3. last \in secrets
    <3> HIDE DEF secrets
    <3> QED
      BY <2>2
  <2>4. LatestSecret(writes) = writes[last].id
    BY <1>2 DEF LatestSecret
  <2> HIDE DEF last
  <2> QED
    BY <2>3, <2>4 DEF Secrets
<1> QED
  BY <1>1, <1>2

(* The lock, the memory of the processes, their jobs and the rows are of    *)
(* their types in every state.                                             *)
THEOREM TypeCorrect == Spec => []TypeOK
<1>1. IInv => TypeOK
  BY DEF IInv
<1> QED
  BY <1>1, Invariance, PTL

(* In every state, whatever crashed or was refused: one process at most    *)
(* serves, the snapshot is a state that it went through, and the secret    *)
(* that a connection refers to is in its memory, unless its insertion      *)
(* failed (PostgresBackedConnectorStore).                                  *)
THEOREM RestartsSound == Spec => []RestartsAreSound
<1>1. ASSUME IInv PROVE RestartsAreSound
  <2>1. OneInstance
    BY <1>1 DEF IInv, ProcessOK, OneInstance
  <2>2. RowIsHistory
    BY <1>1 DEF IInv, ProcessOK, RowIsHistory
  <2>3. LatestSecretResolves
    <3> SUFFICES ASSUME NEW p \in Processes, phase[p] = "up"
                 PROVE  LatestSecret(log[p]) \in known[p] \cup missed \cup {0}
      BY DEF LatestSecretResolves
    <3>1. log[p] \in Seq(Write) /\ Secrets(log[p]) \subseteq known[p] \cup missed
      BY <1>1, UpFacts
    <3> QED
      BY <3>1, LatestIsSecret
  <2> QED
    BY <2>1, <2>2, <2>3 DEF RestartsAreSound
<1> QED
  BY <1>1, Invariance, PTL

(* The snapshot only ever grows: no step, of whichever process, restart or *)
(* failed statement, takes from disk a write that a snapshot has saved.    *)
THEOREM SavedStays == Spec => SavedStaysSaved
<1>1. ASSUME IInv, [Next]_vars PROVE [IsPrefix(row, row')]_row
  <2> SUFFICES ASSUME row' # row PROVE IsPrefix(row, row')
    OBVIOUS
  <2>1. PICK p \in Processes : Settle(p) \/ Crash(p)
    BY <1>1 DEF Next, vars, AcquireLock, Hydrate, LoadSecrets, Mutate,
                PutSecret, Send, StatementFails, Close, SessionEnds
  <2>2. CASE Settle(p)
    BY <1>1, <2>2, ExecutedRow DEF Settle
  <2>3. CASE Crash(p)
    BY <1>1, <2>3, CrashRow
  <2> QED
    BY <2>1, <2>2, <2>3
<1>2. IInv /\ [Next]_vars => [IsPrefix(row, row')]_row
  BY <1>1
<1> QED
  BY <1>2, Invariance, PTL DEF Spec, SavedStaysSaved

-----------------------------------------------------------------------------
(***************************************************************************)
(* RuntimeStore implements DurableState.  What IInv does not say, and a    *)
(* close without loss needs: every write has a snapshot behind it in the   *)
(* chain, so that a chain that is done has saved the memory.               *)
(***************************************************************************)
CaughtUp(p) ==
    phase[p] = "up" =>
        /\ chain[p] = <<>> => row = log[p]
        /\ chain[p] # <<>> => chain[p][Len(chain[p])].kind = "snapshot"
        /\ Len(chain[p]) = 1 /\ statement[p].kind # "none" =>
                statement[p].log = log[p]

SInv == IInv /\ \A p \in Processes : CaughtUp(p)

\* A step of one process, whose CaughtUp it keeps, keeps that of all.
LEMMA OthersDown ==
    ASSUME SInv, NEW p \in Processes, IInv', lock = p, CaughtUp(p)',
           \A q \in Processes \ {p} : phase'[q] = phase[q]
    PROVE  SInv'
<1>1. \A q \in Processes \ {p} : phase'[q] = "down"
  BY Alone DEF SInv
<1> QED
  BY <1>1 DEF SInv, CaughtUp

\* The last of what is appended is the last of the whole.
LEMMA LastAppended ==
    ASSUME NEW jobs \in Seq(Job), NEW job \in Job, NEW last \in Job
    PROVE  LET one == Append(jobs, last)
               two == jobs \o <<job, last>>
           IN  /\ Len(jobs) \in Nat
               /\ Len(one) = Len(jobs) + 1 /\ one[Len(one)] = last /\ one # <<>>
               /\ Len(two) = Len(jobs) + 2 /\ two[Len(two)] = last /\ two # <<>>
<1>1. Len(jobs) \in Nat
  OBVIOUS
<1>2. LET one == Append(jobs, last)
      IN  Len(one) = Len(jobs) + 1 /\ one[Len(one)] = last /\ one # <<>>
  OBVIOUS
<1>3. LET two == jobs \o <<job, last>>
      IN  Len(two) = Len(jobs) + 2 /\ two[Len(two)] = last /\ two # <<>>
  <2>1. Len(<<job, last>>) = 2 /\ <<job, last>>[2] = last /\ <<job, last>> \in Seq(Job)
    OBVIOUS
  <2> QED
    BY <1>1, <2>1
<1> QED
  BY <1>1, <1>2, <1>3

LEMMA WriteCaughtUp ==
    ASSUME SInv, NEW p \in Processes, Mutate(p) \/ PutSecret(p)
    PROVE  CaughtUp(p)'
<1>1. /\ phase[p] = "up" /\ UNCHANGED <<phase, statement>>
      /\ chain \in [Processes -> Seq(Job)] /\ chain[p] \in Seq(Job)
      /\ issued \in Nat /\ StatementOK(p)
  BY UpFacts DEF SInv, IInv, Mutate, PutSecret
<1>2. issued' \in Nat
  BY <1>1 DEF Mutate, PutSecret
<1>3. CASE Mutate(p)
  <2>1. chain'[p] = Append(chain[p], Snapshot)
    BY <1>1, <1>3 DEF Mutate
  <2>2. /\ Len(chain'[p]) = Len(chain[p]) + 1 /\ Len(chain[p]) \in Nat
        /\ chain'[p][Len(chain'[p])] = Snapshot /\ chain'[p] # <<>>
    <3>1. chain[p] \in Seq(Job) /\ Snapshot \in Job
      BY <1>1, JobsAreJobs
    <3> QED
      BY <2>1, <3>1, LastAppended
  <2>3. statement[p].kind # "none" => Len(chain[p]) # 0
    BY <1>1 DEF StatementOK
  <2> QED
    BY <1>1, <2>2, <2>3, JobsAreJobs DEF CaughtUp
<1>4. CASE PutSecret(p)
  <2>1. chain'[p] = chain[p] \o <<InsertSecret(issued'), Snapshot>>
    BY <1>1, <1>4 DEF PutSecret
  <2>2. /\ Len(chain'[p]) = Len(chain[p]) + 2 /\ Len(chain[p]) \in Nat
        /\ chain'[p][Len(chain'[p])] = Snapshot /\ chain'[p] # <<>>
    <3>1. chain[p] \in Seq(Job) /\ Snapshot \in Job /\ InsertSecret(issued') \in Job
      BY <1>1, <1>2, JobsAreJobs
    <3> QED
      BY <2>1, <3>1, LastAppended
  <2> QED
    BY <1>1, <2>2, JobsAreJobs DEF CaughtUp
<1> QED
  BY <1>3, <1>4

LEMMA SendCaughtUp ==
    ASSUME SInv, NEW p \in Processes, Send(p)
    PROVE  CaughtUp(p)'
<1>1. /\ phase[p] = "up" /\ chain[p] # <<>> /\ chain[p] \in Seq(Job)
      /\ UNCHANGED <<phase, chain, log>> /\ CaughtUp(p)
  BY UpFacts DEF SInv, Send
<1>2. ASSUME Len(chain[p]) = 1
      PROVE  statement'[p].log = log[p]
  <2>1. Head(chain[p]) = chain[p][Len(chain[p])]
    BY <1>1, <1>2
  <2>2. Head(chain[p]).kind = "snapshot"
    BY <1>1, <2>1 DEF CaughtUp
  <2> QED
    BY <2>2 DEF Send, SInv, IInv, TypeOK
<1> QED
  BY <1>1, <1>2 DEF CaughtUp

\* The rest of the chain, once its first job is done.
LEMMA RestOfChain ==
    ASSUME NEW jobs \in Seq(Job), jobs # <<>>
    PROVE  /\ Tail(jobs) = <<>> <=> Len(jobs) = 1
           /\ Tail(jobs) # <<>> =>
                Tail(jobs)[Len(Tail(jobs))] = jobs[Len(jobs)]
           /\ Len(jobs) \in Nat /\ Len(jobs) > 0
           /\ Len(jobs) = 1 => Head(jobs) = jobs[Len(jobs)]
<1>1. /\ Len(jobs) \in Nat /\ Len(jobs) > 0
      /\ Tail(jobs) \in Seq(Job) /\ Len(Tail(jobs)) = Len(jobs) - 1
      /\ \A i \in 1 .. Len(jobs) - 1 : Tail(jobs)[i] = jobs[i + 1]
      /\ Head(jobs) = jobs[1]
  OBVIOUS
<1>2. \A rest \in Seq(Job) : rest = <<>> <=> Len(rest) = 0
  OBVIOUS
<1>3. Tail(jobs) = <<>> <=> Len(Tail(jobs)) = 0
  BY <1>1, <1>2, Zenon
<1>4. Tail(jobs) = <<>> <=> Len(jobs) = 1
  BY <1>1, <1>3
<1> QED
  BY <1>1, <1>4

LEMMA SettleCaughtUp ==
    ASSUME SInv, NEW p \in Processes, Settle(p)
    PROVE  CaughtUp(p)'
<1>1. /\ phase[p] = "up" /\ statement[p].kind # "none" /\ Executed(p)
      /\ UNCHANGED <<phase, log>> /\ CaughtUp(p) /\ StatementOK(p)
      /\ chain'[p] = Tail(chain[p]) /\ statement'[p] = NotSent
  BY DEF Settle, SInv, IInv, TypeOK
<1>2. chain[p] # <<>> /\ chain[p] \in Seq(Job)
  BY <1>1, UpFacts, FirstJob DEF SInv
<1>3. ASSUME Len(chain[p]) = 1
      PROVE  row' = log'[p]
  <2>1. statement[p].kind = "snapshot"
    BY <1>1, <1>2, <1>3, RestOfChain DEF CaughtUp, StatementOK
  <2> QED
    BY <1>1, <1>3, <2>1 DEF CaughtUp, Executed
<1> QED
  BY <1>1, <1>2, <1>3, RestOfChain, NotSentOK DEF CaughtUp

LEMMA StatementFailsCaughtUp ==
    ASSUME SInv, NEW p \in Processes, StatementFails(p)
    PROVE  CaughtUp(p)'
<1>1. /\ phase[p] = "up" /\ statement[p].kind # "none" /\ CaughtUp(p)
  BY DEF StatementFails, SInv
<1>2. chain[p] # <<>> /\ chain[p] \in Seq(Job)
  BY <1>1, UpFacts, FirstJob DEF SInv
<1>3. CASE Len(chain[p]) > 1
  <2>1. /\ UNCHANGED <<phase, log, row>>
        /\ chain'[p] = Tail(chain[p]) /\ statement'[p] = NotSent
    BY <1>3 DEF StatementFails, SInv, IInv, TypeOK
  <2> QED
    BY <1>1, <1>2, <1>3, <2>1, RestOfChain, NotSentOK DEF CaughtUp
<1>4. CASE ~(Len(chain[p]) > 1)
  BY <1>4 DEF StatementFails, Gone, SInv, IInv, TypeOK, CaughtUp
<1> QED
  BY <1>3, <1>4

\* Every step keeps the invariant: only LoadSecrets brings a process up, with
\* nothing but what the row has.
LEMMA NextSInv == SInv /\ [Next]_vars => SInv'
<1> SUFFICES ASSUME SInv, [Next]_vars PROVE SInv'
  OBVIOUS
<1>0. IInv /\ IInv'
  BY NextIInv DEF SInv
<1>1. CASE UNCHANGED vars
  BY <1>0, <1>1 DEF SInv, CaughtUp, vars
<1>2. CASE Next
  <2>1. PICK p \in Processes :
            \/ AcquireLock(p) \/ Hydrate(p) \/ LoadSecrets(p)
            \/ Mutate(p) \/ PutSecret(p)
            \/ Send(p) \/ Settle(p) \/ StatementFails(p)
            \/ Crash(p) \/ Close(p) \/ SessionEnds(p)
    BY <1>2 DEF Next
  <2>2. CASE AcquireLock(p) \/ Hydrate(p) \/ Crash(p) \/ Close(p) \/ SessionEnds(p)
    <3>1. \A q \in Processes : phase'[q] # "up"
      <4>1. lock \in {p, Nobody}
        BY <1>0, <2>2, RunningHasLock
           DEF AcquireLock, Hydrate, Crash, Close, SessionEnds, Running
      <4>2. \A q \in Processes \ {p} : phase[q] = "down"
        BY <1>0, <4>1, Alone
      <4>3. \A q \in Processes \ {p} : phase'[q] = phase[q]
        BY <1>0, <2>2 DEF AcquireLock, Hydrate, Crash, Close, SessionEnds,
                          Gone, IInv, TypeOK
      <4>4. phase'[p] # "up"
        BY <1>0, <2>2 DEF AcquireLock, Hydrate, Crash, Close, SessionEnds,
                          Gone, Running, IInv, TypeOK
      <4> QED
        BY <4>2, <4>3, <4>4
    <3> QED
      BY <1>0, <3>1 DEF SInv, CaughtUp
  <2>3. CASE \/ LoadSecrets(p) \/ Mutate(p) \/ PutSecret(p)
             \/ Send(p) \/ Settle(p) \/ StatementFails(p)
    <3>1. /\ lock = p
          /\ \A q \in Processes \ {p} : phase'[q] = phase[q]
      BY <1>0, <2>3, RunningHasLock
         DEF LoadSecrets, Mutate, PutSecret, Send, Settle, StatementFails, Gone,
             IInv, TypeOK
    <3>2. CaughtUp(p)'
      <4>1. CASE LoadSecrets(p)
        BY <1>0, <4>1, NotSentOK DEF LoadSecrets, CaughtUp, IInv, ProcessOK
      <4> QED
        BY <2>3, <4>1, WriteCaughtUp, SendCaughtUp, SettleCaughtUp,
           StatementFailsCaughtUp
    <3> QED
      BY <1>0, <3>1, <3>2, OthersDown
  <2> QED
    BY <2>1, <2>2, <2>3
<1> QED
  BY <1>1, <1>2

LEMMA InitSInv == Init => SInv
BY InitIInv DEF Init, SInv, CaughtUp

LEMMA SInvariance == Spec => []SInv
BY InitSInv, NextSInv, PTL DEF Spec

-----------------------------------------------------------------------------
(* The steps of the processes are steps of the durable state *)

\* What Durable calls live.
Live == IF Serving THEN log[lock] ELSE <<>>

\* The abstract state, seen from the process that has the lock.
LEMMA AbstractState ==
    ASSUME IInv, NEW p \in Processes, lock = p
    PROVE  /\ phase[p] = "down" => Mode = "crashed" /\ Live = <<>>
           /\ phase[p] = "up" => Mode = "open" /\ Live = log[p]
           /\ phase[p] \in {"locked", "hydrated"} =>
                    Mode = "opening" /\ Live = <<>>
BY NobodyAssumption DEF Mode, Live, Serving

LEMMA AbstractNobody ==
    ASSUME lock = Nobody
    PROVE  Mode = "closed" /\ Live = <<>>
BY DEF Mode, Live, Serving

\* A row that grows within the memory is a longer part of it.
LEMMA MoreIsSaved ==
    ASSUME NEW s \in Seq(Write), NEW t \in Seq(Write), NEW l \in Seq(Write),
           IsPrefix(s, t), IsPrefix(t, l)
    PROVE  \E n \in Len(s) .. Len(l) : t = SubSeq(l, 1, n)
<1>1. /\ Len(s) \in Nat /\ Len(t) \in Nat /\ Len(l) \in Nat
      /\ Len(s) <= Len(t) /\ Len(t) <= Len(l)
      /\ SubSeq(t, 1, Len(t)) = SubSeq(l, 1, Len(t))
  BY DEF IsPrefix
<1>2. SubSeq(t, 1, Len(t)) = t
  OBVIOUS
<1>3. Len(t) \in Len(s) .. Len(l)
  BY <1>1
<1> QED
  BY <1>1, <1>2, <1>3

\* The start of a process.
LEMMA StartRefines ==
    ASSUME SInv, SInv', NEW p \in Processes,
           AcquireLock(p) \/ Hydrate(p) \/ LoadSecrets(p)
    PROVE  Durable!DurableNext \/ UNCHANGED <<Mode, Live, row>>
<1>0. IInv /\ IInv'
  BY DEF SInv
<1>1. CASE AcquireLock(p)
  <2>1. Mode = "closed" /\ Live = <<>> /\ UNCHANGED row
    BY <1>1, AbstractNobody DEF AcquireLock
  <2>2. lock' = p /\ phase'[p] = "locked"
    BY <1>0, <1>1 DEF AcquireLock, IInv, TypeOK
  <2>3. Mode' = "opening" /\ Live' = <<>>
    BY <2>2, NobodyAssumption DEF Mode, Live, Serving
  <2>4. Durable!Begin
    BY <2>1, <2>3 DEF Durable!Begin, Live
  <2> QED
    BY <2>4 DEF Durable!DurableNext
<1>2. CASE Hydrate(p)
  <2>1. /\ lock = p /\ phase[p] = "locked" /\ UNCHANGED <<lock, row>>
        /\ phase'[p] = "hydrated"
    BY <1>0, <1>2, RunningHasLock DEF Hydrate, IInv, TypeOK
  <2> QED
    BY <2>1, NobodyAssumption DEF Mode, Live, Serving
<1>3. CASE LoadSecrets(p)
  <2>1. /\ lock = p /\ phase[p] = "hydrated" /\ UNCHANGED <<lock, row, log>>
        /\ phase'[p] = "up" /\ log[p] = row
    BY <1>0, <1>3, RunningHasLock DEF LoadSecrets, IInv, TypeOK, ProcessOK
  <2>2. /\ Mode = "opening" /\ Live = <<>>
        /\ Mode' = "open" /\ Live' = row
    BY <2>1, NobodyAssumption DEF Mode, Live, Serving
  <2>3. Durable!Open
    BY <2>1, <2>2 DEF Durable!Open, Live
  <2> QED
    BY <2>3 DEF Durable!DurableNext
<1> QED
  BY <1>1, <1>2, <1>3

\* A mutator adds its write.
LEMMA WriteRefines ==
    ASSUME SInv, NEW p \in Processes, Mutate(p) \/ PutSecret(p)
    PROVE  Durable!DurableNext
<1>1. /\ phase[p] = "up" /\ lock = p /\ UNCHANGED <<phase, lock, row>>
      /\ log[p] \in Seq(Write) /\ issued \in Nat /\ issued < MaxWrites
      /\ issued' = issued + 1
  BY UpFacts DEF SInv, Mutate, PutSecret
<1>2. PICK s \in BOOLEAN :
        log'[p] = Append(log[p], [id |-> issued', secret |-> s])
  BY DEF Mutate, PutSecret, SInv, IInv, TypeOK
<1>3. [id |-> issued', secret |-> s] \in [id : 1 .. MaxWrites, secret : BOOLEAN]
  BY <1>1, MaxWritesAssumption
<1>4. /\ Mode = "open" /\ Live = log[p]
      /\ Mode' = "open" /\ Live' = log'[p]
  BY <1>1, NobodyAssumption DEF Mode, Live, Serving
<1>5. Durable!Add([id |-> issued', secret |-> s])
  BY <1>1, <1>2, <1>4 DEF Durable!Add, Live
<1> QED
  BY <1>3, <1>5 DEF Durable!DurableNext

\* A job that is sent changes nothing, a job that is done may save.
LEMMA JobRefines ==
    ASSUME SInv, NEW p \in Processes, Send(p) \/ Settle(p)
    PROVE  Durable!DurableNext \/ UNCHANGED <<Mode, Live, row>>
<1>0. IInv
  BY DEF SInv
<1>1. /\ phase[p] = "up" /\ lock = p /\ UNCHANGED <<phase, lock, log>>
      /\ log[p] \in Seq(Write) /\ row \in Seq(Write)
  BY <1>0, UpFacts DEF Send, Settle
<1>2. /\ Mode = "open" /\ Live = log[p]
      /\ Mode' = "open" /\ Live' = Live
  BY <1>1, NobodyAssumption DEF Mode, Live, Serving
<1>3. CASE Send(p)
  BY <1>2, <1>3 DEF Send
<1>4. CASE Settle(p)
  <2>1. row' \in Seq(Write) /\ IsPrefix(row, row') /\ IsPrefix(row', log[p])
    BY <1>0, <1>4, ExecutedRow DEF Settle
  <2>2. \E n \in Len(row) .. Len(Live) : row' = SubSeq(Live, 1, n)
    BY <1>1, <1>2, <2>1, MoreIsSaved
  <2>3. Durable!Save
    BY <1>2, <2>2 DEF Durable!Save, Durable!MoreSaved, Live
  <2> QED
    BY <2>3 DEF Durable!DurableNext
<1> QED
  BY <1>3, <1>4

\* A process that ends is a fall; what it was saving is saved or not.
LEMMA GoneRefines ==
    ASSUME SInv, NEW p \in Processes, Running(p), Gone(p), lock' = lock,
           \/ UNCHANGED row
           \/ /\ phase[p] = "up" /\ row' \in Seq(Write)
              /\ IsPrefix(row, row') /\ IsPrefix(row', log[p])
    PROVE  Durable!DurableNext
<1>1. IInv /\ lock = p /\ phase'[p] = "down"
  BY RunningHasLock DEF SInv, Running, Gone, IInv, TypeOK
<1>2. Mode' = "crashed" /\ Live' = <<>>
  BY <1>1, NobodyAssumption DEF Mode, Live, Serving
<1>3. CASE phase[p] = "up"
  <2>1. /\ Mode = "open" /\ Live = log[p]
        /\ log[p] \in Seq(Write) /\ row \in Seq(Write) /\ IsPrefix(row, log[p])
    BY <1>1, <1>3, UpFacts, AbstractState
  <2>2. row' \in Seq(Write) /\ IsPrefix(row, row') /\ IsPrefix(row', log[p])
    BY <2>1, PrefixSelf
  <2>3. \E n \in Len(row) .. Len(Live) : row' = SubSeq(Live, 1, n)
    BY <2>1, <2>2, MoreIsSaved
  <2>4. Durable!Fall
    BY <1>2, <2>1, <2>3 DEF Durable!Fall, Durable!MoreSaved, Live
  <2> QED
    BY <2>4 DEF Durable!DurableNext
<1>4. CASE phase[p] # "up"
  <2>1. Mode = "opening" /\ UNCHANGED row
    <3>1. phase[p] \in {"locked", "hydrated"}
      BY <1>1, <1>4 DEF Running, IInv, TypeOK
    <3> QED
      BY <1>1, <1>4, <3>1, AbstractState
  <2>2. Durable!Fall
    BY <1>2, <2>1 DEF Durable!Fall, Live
  <2> QED
    BY <2>2 DEF Durable!DurableNext
<1> QED
  BY <1>3, <1>4

\* A refused statement is skipped, or is the end of its process.
LEMMA StatementFailsRefines ==
    ASSUME SInv, NEW p \in Processes, StatementFails(p)
    PROVE  Durable!DurableNext \/ UNCHANGED <<Mode, Live, row>>
<1>1. CASE Len(chain[p]) > 1
  <2>1. UNCHANGED <<phase, log, lock, row>>
    BY <1>1 DEF StatementFails
  <2> QED
    BY <2>1 DEF Mode, Live, Serving
<1>2. CASE ~(Len(chain[p]) > 1)
  BY <1>2, GoneRefines DEF StatementFails, Running
<1> QED
  BY <1>1, <1>2

LEMMA CrashRefines ==
    ASSUME SInv, NEW p \in Processes, Crash(p)
    PROVE  Durable!DurableNext
<1>1. Running(p) /\ Gone(p) /\ lock' = lock
      /\ (Executed(p) \/ UNCHANGED <<row, secretRows>>)
  BY DEF Crash
<1>2. CASE statement[p].kind # "none" /\ Executed(p)
  <2>1. phase[p] = "up"
    BY <1>2, NotSentOK DEF SInv, IInv, ProcessOK
  <2> QED
    BY <1>1, <1>2, <2>1, ExecutedRow, GoneRefines DEF SInv
<1>3. CASE ~(statement[p].kind # "none" /\ Executed(p))
  <2>1. UNCHANGED row
    BY <1>1, <1>3 DEF Executed
  <2> QED
    BY <1>1, <2>1, GoneRefines
<1> QED
  BY <1>2, <1>3

\* At a close the chain is done, and has saved the memory.
LEMMA CloseRefines ==
    ASSUME SInv, NEW p \in Processes, Close(p)
    PROVE  Durable!DurableNext
<1>1. /\ phase[p] = "up" /\ lock = p /\ lock' = Nobody
      /\ UNCHANGED row /\ row = log[p]
  BY DEF Close, SInv, CaughtUp
<1>2. /\ Mode = "open" /\ Live = log[p]
      /\ Mode' = "closed" /\ Live' = <<>>
  BY <1>1, NobodyAssumption DEF Mode, Live, Serving
<1>3. Durable!Shut
  BY <1>1, <1>2 DEF Durable!Shut, Live
<1> QED
  BY <1>3 DEF Durable!DurableNext

LEMMA SessionEndsRefines ==
    ASSUME SInv, NEW p \in Processes, SessionEnds(p)
    PROVE  Durable!DurableNext
<1>1. lock = p /\ phase[p] = "down" /\ lock' = Nobody /\ UNCHANGED row
  BY DEF SessionEnds, Running
<1>2. /\ Mode = "crashed" /\ Live = <<>>
      /\ Mode' = "closed" /\ Live' = <<>>
  BY <1>1, NobodyAssumption DEF Mode, Live, Serving
<1>3. Durable!Recover
  BY <1>1, <1>2 DEF Durable!Recover, Live
<1> QED
  BY <1>3 DEF Durable!DurableNext

LEMMA StepRefines ==
    SInv /\ SInv' /\ [Next]_vars => [Durable!DurableNext]_(Durable!durableVars)
<1> SUFFICES ASSUME SInv, SInv', [Next]_vars
             PROVE  Durable!DurableNext \/ UNCHANGED <<Mode, Live, row>>
  BY DEF Durable!durableVars, Live
<1>1. CASE UNCHANGED vars
  BY <1>1 DEF vars, Mode, Live, Serving
<1>2. CASE Next
  <2>1. PICK p \in Processes :
            \/ AcquireLock(p) \/ Hydrate(p) \/ LoadSecrets(p)
            \/ Mutate(p) \/ PutSecret(p)
            \/ Send(p) \/ Settle(p) \/ StatementFails(p)
            \/ Crash(p) \/ Close(p) \/ SessionEnds(p)
    BY <1>2 DEF Next
  <2> QED
    BY <2>1, StartRefines, WriteRefines, JobRefines, StatementFailsRefines,
       CrashRefines, CloseRefines, SessionEndsRefines
<1> QED
  BY <1>1, <1>2

LEMMA InitRefines == Init => Durable!DurableInit
BY DEF Init, Mode, Serving, Durable!DurableInit

(* Every behaviour of the processes, their jobs and the statements of      *)
(* Postgres is one of a single durable state: writes are saved in their    *)
(* order and for good, a close loses none of them and a crash those only   *)
(* that were not saved yet (initialize, scheduleFlush, close).             *)
THEOREM DurableStateImplemented == Spec => ImplementsDurableState
BY InitRefines, StepRefines, SInvariance, PTL
   DEF Spec, ImplementsDurableState, Durable!DurableSpec

=============================================================================
