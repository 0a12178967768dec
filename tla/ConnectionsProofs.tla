-------------------------- MODULE ConnectionsProofs --------------------------
(* Theorems about Connections, for every value of its constants. *)
EXTENDS Connections, TLAPS

(***************************************************************************)
(* The inductive invariant.                                                *)
(*                                                                         *)
(* A secret that came from an operator or the provider names an act and    *)
(* tokens there have been; a call at the provider has a secret it can      *)
(* send, or a code of a session.                                           *)
(***************************************************************************)
SecretOK(s, a, n) ==
    /\ s \in Secret \cup {NoSecret}
    /\ s.kind \in {"oauth2_client", "oauth2_token"} => s.from \in 1 .. a
    /\ s.token \in 0 .. n
    /\ s.renews => s.token # 0

CallOK(c, a, n, m) ==
    /\ c \in Call
    /\ SecretOK(c.using, a, n)
    /\ c.op = "code" => c.act \in 1 .. a /\ c.session \in 1 .. m
    /\ c.at \in {"asked", "answered"} /\ c.op # "code" =>
            c.using.kind \in {"oauth2_client", "oauth2_token"}
    /\ c.at = "answered" => c.got \in 1 .. n

SecretsOK ==
    /\ SecretOK(latest, acts, issued) /\ SecretOK(attached, acts, issued)
    /\ \A k \in Calls : CallOK(calls[k], acts, issued, sessions)

\* The token in an answer that has not arrived is nowhere else, and when it
\* can be refreshed nobody has done so.
AnswersAreNew ==
    \A k \in Calls : calls[k].at = "answered" =>
        /\ latest.token # calls[k].got /\ attached.token # calls[k].got
        /\ \A j \in Calls : /\ calls[j].using.token # calls[k].got
                            /\ calls[j].at = "answered" /\ j # k =>
                                    calls[j].got # calls[k].got
        /\ calls[k].renews => Accepted(calls[k].got)

\* StoredTokenIsLive, where the answer on its way is that of a refresh: the
\* exchange of a code, which lost does not tell, uses up no refresh token.
AttachedIsLive ==
    attached.renews =>
        \/ Accepted(attached.token)
        \/ attached.token \in lost
        \/ \E k \in Calls : /\ calls[k].at = "answered"
                            /\ calls[k].op # "code"
                            /\ calls[k].using.token = attached.token

\* What the calls at the provider will store, when newest was stored without
\* one there: descendants of it, or of a code that is newer.
CallsFollow ==
    ~overtaken =>
        \A k \in AtProvider :
            IF calls[k].op = "code" THEN calls[k].act > newest
                                    ELSE calls[k].using.from = newest

IInv ==
    /\ TypeOK
    /\ SecretsOK
    /\ AnswersAreNew
    /\ AttachedIsLive
    /\ CallsFollow
    /\ NewestEntryIsUsed
    /\ AwaitedSessionExists

-----------------------------------------------------------------------------
(* Secrets and calls *)

LEMMA Literals ==
    /\ \A s \in Secret \cup {NoSecret} :
          /\ s.from \in Nat /\ s.token \in Nat /\ s.renews \in BOOLEAN
          /\ s.kind \in {"oauth2_client", "oauth2_token", "ingest_client", "none"}
    /\ Idle \in Call
    /\ Idle.at = "idle" /\ Idle.op = "none" /\ Idle.using = NoSecret
    /\ NoSecret.token = 0 /\ NoSecret.renews = FALSE /\ NoSecret.kind = "none"
    /\ NoSecret.from = 0
<1>1. /\ NoSecret.token = 0 /\ NoSecret.renews = FALSE /\ NoSecret.kind = "none"
      /\ NoSecret.from = 0
  BY DEF NoSecret
<1>2. ASSUME NEW s \in Secret
      PROVE  /\ s.from \in Nat /\ s.token \in Nat /\ s.renews \in BOOLEAN
             /\ s.kind \in {"oauth2_client", "oauth2_token", "ingest_client"}
  BY ConnectionsAssumption DEF Secret
<1>3. /\ Idle \in Call
      /\ Idle.at = "idle" /\ Idle.op = "none" /\ Idle.using = NoSecret
  BY ConnectionsAssumption DEF Idle, Call
<1>4. ASSUME NEW s \in Secret \cup {NoSecret}
      PROVE  /\ s.from \in Nat /\ s.token \in Nat /\ s.renews \in BOOLEAN
             /\ s.kind \in {"oauth2_client", "oauth2_token", "ingest_client",
                            "none"}
  <2>1. CASE s = NoSecret
    BY <2>1 DEF NoSecret
  <2>2. CASE s \in Secret
    BY <1>2, <2>2
  <2> QED
    BY <2>1, <2>2
<1> QED
  BY <1>1, <1>3, <1>4

\* Acts, tokens and sessions only get more.
LEMMA Grows ==
    ASSUME NEW a \in Nat, NEW n \in Nat, NEW m \in Nat,
           NEW a2 \in Nat, NEW n2 \in Nat, NEW m2 \in Nat,
           a <= a2, n <= n2, m <= m2
    PROVE  /\ \A s : SecretOK(s, a, n) => SecretOK(s, a2, n2)
           /\ \A c : CallOK(c, a, n, m) => CallOK(c, a2, n2, m2)
<1>1. \A s : SecretOK(s, a, n) => SecretOK(s, a2, n2)
  BY DEF SecretOK
<1>2. \A c : CallOK(c, a, n, m) => CallOK(c, a2, n2, m2)
  BY <1>1 DEF CallOK
<1> QED
  BY <1>1, <1>2

LEMMA IdleOK ==
    ASSUME NEW a \in Nat, NEW n \in Nat, NEW m \in Nat
    PROVE  SecretOK(NoSecret, a, n) /\ CallOK(Idle, a, n, m)
BY Literals DEF SecretOK, CallOK

LEMMA NewSecrets ==
    ASSUME NEW a \in 1 .. MaxActs, NEW n \in 1 .. MaxTokens, NEW r \in BOOLEAN
    PROVE  /\ Client(a).kind = "oauth2_client" /\ Client(a).from = a
           /\ Client(a).token = 0 /\ Client(a).renews = FALSE
           /\ Client(a) \in Secret
           /\ Token(a, n, r).kind = "oauth2_token" /\ Token(a, n, r).from = a
           /\ Token(a, n, r).token = n /\ Token(a, n, r).renews = r
           /\ Token(a, n, r) \in Secret
BY ConnectionsAssumption DEF Client, Token, Secret

LEMMA InitIInv == Init => IInv
<1> SUFFICES ASSUME Init PROVE IInv
  OBVIOUS
<1> DEFINE rows == [ status : {"pending", "active", "disabled"},
                     auth : {"not_started", "awaiting", "authorized"},
                     secretRef : BOOLEAN ]
<1>1. /\ attached = latest /\ newest = acts /\ session = 0 /\ sessions = 0
      /\ calls = [k \in Calls |-> Idle]
      /\ expired = {} /\ issued = 0 /\ live = {} /\ redeemed = {}
      /\ overtaken = FALSE /\ lost = {} /\ lapsed = FALSE
  BY DEF Init
<1>2. \/ /\ latest = NoSecret /\ acts = 0
         /\ conn \in rows /\ conn.auth # "awaiting"
      \/ /\ latest = Client(1) /\ acts = 1
         /\ conn \in rows /\ conn.auth # "awaiting" /\ conn.secretRef = TRUE
  <2>1. ASSUME NEW ref \in BOOLEAN,
               conn = [ status |-> "pending", secretRef |-> ref,
                        auth |-> IF ref THEN "authorized" ELSE "not_started" ]
        PROVE  conn \in rows /\ conn.auth # "awaiting"
    BY <2>1
  <2>2. ASSUME conn = [ status |-> "pending", secretRef |-> TRUE,
                        auth |-> "not_started" ]
        PROVE  conn \in rows /\ conn.auth # "awaiting" /\ conn.secretRef = TRUE
    BY <2>2
  <2> QED
    BY <2>1, <2>2, Zenon DEF Init
<1>3. /\ latest \in Secret \cup {NoSecret}
      /\ latest.kind # "ingest_client" /\ latest.renews = FALSE
      /\ latest.from = newest
      /\ acts \in 0 .. MaxActs
      /\ SecretOK(latest, acts, issued)
  <2>1. 1 \in 1 .. MaxActs
    BY ConnectionsAssumption
  <2>2. CASE latest = NoSecret /\ acts = 0
    BY <1>1, <2>2, Literals, ConnectionsAssumption DEF SecretOK
  <2>3. CASE latest = Client(1) /\ acts = 1
    <3>1. /\ Client(1) \in Secret /\ Client(1).kind = "oauth2_client"
          /\ Client(1).renews = FALSE /\ Client(1).from = 1
          /\ Client(1).token = 0
      BY ConnectionsAssumption DEF Client, Secret
    <3> QED
      BY <1>1, <2>1, <2>3, <3>1 DEF SecretOK
  <2> QED
    BY <1>2, <2>2, <2>3
<1>4. TypeOK
  <2>1. attached # NoSecret => conn.secretRef
    BY <1>1, <1>2
  <2>2. conn \in rows
    BY <1>2
  <2>3. {latest, attached} \subseteq Secret \cup {NoSecret}
    BY <1>1, <1>3
  <2>4. calls \in [Calls -> Call]
    BY <1>1, Literals
  <2>5. /\ issued \in 0 .. MaxTokens /\ sessions \in 0 .. MaxSessions
        /\ session \in 0 .. sessions /\ newest \in 0 .. acts
    BY <1>1, <1>3, ConnectionsAssumption
  <2> QED
    BY <1>1, <1>3, <2>1, <2>2, <2>3, <2>4, <2>5 DEF TypeOK
<1>5. SecretsOK
  BY <1>1, <1>3, Literals, IdleOK DEF SecretsOK
<1> QED
  BY <1>1, <1>2, <1>3, <1>4, <1>5, Literals
     DEF IInv, AnswersAreNew, AttachedIsLive, CallsFollow, AtProvider,
         NewestEntryIsUsed, AwaitedSessionExists

-----------------------------------------------------------------------------
(* Steps that leave the calls alone *)

\* The status of the row, the end of a session and the age of a token.
LEMMA QuietIInv ==
    ASSUME IInv,
           \/ \E s \in {"pending", "active", "disabled"} : SetStatus(s)
           \/ FindSessionExpired
           \/ \E n \in 1 .. MaxTokens : Expire(n)
    PROVE  IInv'
<1>1. /\ UNCHANGED <<latest, attached, sessions, calls, outside, acts, newest,
                     overtaken, lost>>
      /\ conn'.auth = conn.auth /\ (session' = session \/ lapsed')
      /\ lapsed => lapsed'
  BY DEF IInv, TypeOK, SetStatus, FindSessionExpired, Expire, outside, history
<1>2. TypeOK'
  <2>1. conn' \in [ status : {"pending", "active", "disabled"},
                    auth : {"not_started", "awaiting", "authorized"},
                    secretRef : BOOLEAN ]
        /\ conn'.secretRef = conn.secretRef
    BY DEF IInv, TypeOK, SetStatus, FindSessionExpired, Expire
  <2>2. /\ expired' \subseteq 1 .. issued
        /\ session' \in 0 .. sessions /\ lapsed' \in BOOLEAN
    <3>1. sessions \in Nat
      BY ConnectionsAssumption DEF IInv, TypeOK
    <3>2. CASE FindSessionExpired
      BY <3>1, <3>2 DEF IInv, TypeOK, FindSessionExpired
    <3>3. ASSUME NEW n \in 1 .. MaxTokens, Expire(n)
          PROVE  expired' \subseteq 1 .. issued /\ UNCHANGED <<session, lapsed>>
      BY <3>3 DEF IInv, TypeOK, Expire, history
    <3>4. ASSUME NEW s, SetStatus(s)
          PROVE  UNCHANGED <<session, expired, lapsed>>
      BY <3>4 DEF SetStatus, history
    <3> QED
      BY <3>2, <3>3, <3>4 DEF IInv, TypeOK
  <2> QED
    BY <1>1, <2>1, <2>2 DEF IInv, TypeOK, outside
<1>3. SecretsOK'
  BY <1>1 DEF IInv, SecretsOK, outside
<1>4. AnswersAreNew'
  BY <1>1 DEF IInv, AnswersAreNew, Accepted, outside
<1>5. AttachedIsLive'
  BY <1>1 DEF IInv, AttachedIsLive, Accepted, outside
<1>6. CallsFollow' /\ NewestEntryIsUsed'
  BY <1>1 DEF IInv, CallsFollow, AtProvider, NewestEntryIsUsed
<1>7. AwaitedSessionExists'
  BY <1>1 DEF IInv, AwaitedSessionExists
<1> QED
  BY <1>2, <1>3, <1>4, <1>5, <1>6, <1>7 DEF IInv

\* An operator enters a client's credentials.
LEMMA EnteredIInv ==
    ASSUME IInv,
           acts < MaxActs, acts' = acts + 1,
           latest' = Client(acts + 1), attached' = Client(acts + 1),
           Entered(acts + 1, AtProvider),
           conn' \in [ status : {"pending", "active", "disabled"},
                       auth : {"awaiting", "authorized"},
                       secretRef : {TRUE} ],
           sessions' \in sessions .. MaxSessions, session' \in 0 .. sessions',
           conn'.auth = "awaiting" => session' # 0, lapsed' \in BOOLEAN,
           UNCHANGED <<calls, expired, outside, lost>>
    PROVE  IInv'
<1> DEFINE c == Client(acts + 1)
<1>1. /\ acts \in Nat /\ issued \in Nat /\ sessions \in Nat /\ sessions' \in Nat
      /\ acts + 1 \in 1 .. MaxActs
  BY ConnectionsAssumption DEF IInv, TypeOK
<1>2. /\ c \in Secret /\ c.kind = "oauth2_client" /\ c.from = acts + 1
      /\ c.token = 0 /\ c.renews = FALSE
  BY <1>1, ConnectionsAssumption DEF Client, Secret
<1>3. TypeOK'
  <2>1. live' \subseteq [token : 1 .. issued', from : 1 .. acts']
    BY <1>1 DEF IInv, TypeOK, outside
  <2>2. redeemed' \subseteq 1 .. sessions'
    BY <1>1 DEF IInv, TypeOK, outside
  <2>3. conn' \in [ status : {"pending", "active", "disabled"},
                    auth : {"not_started", "awaiting", "authorized"},
                    secretRef : BOOLEAN ]
        /\ conn'.secretRef
    OBVIOUS
  <2>4. acts' \in 0 .. MaxActs /\ newest' \in 0 .. acts' /\ overtaken' \in BOOLEAN
        /\ sessions' \in 0 .. MaxSessions
    BY <1>1 DEF Entered
  <2> QED
    BY <1>2, <2>1, <2>2, <2>3, <2>4 DEF IInv, TypeOK, outside
<1>4. SecretsOK'
  <2>1. SecretOK(c, acts', issued')
    BY <1>1, <1>2 DEF SecretOK, outside
  <2>2. \A k \in Calls : CallOK(calls'[k], acts', issued', sessions')
    BY <1>1, Grows DEF IInv, SecretsOK, outside
  <2> QED
    BY <2>1, <2>2 DEF SecretsOK
<1>5. AnswersAreNew'
  BY <1>1, <1>2 DEF IInv, AnswersAreNew, SecretsOK, CallOK, Accepted, outside
<1>6. AttachedIsLive'
  BY <1>2 DEF AttachedIsLive
<1>7. CallsFollow' /\ NewestEntryIsUsed'
  BY <1>2 DEF Entered, CallsFollow, AtProvider, NewestEntryIsUsed
<1>8. AwaitedSessionExists'
  BY DEF AwaitedSessionExists
<1> QED
  BY <1>3, <1>4, <1>5, <1>6, <1>7, <1>8 DEF IInv

LEMMA StartIInv ==
    ASSUME IInv, NEW w \in BOOLEAN, StartAuthorization(w)
    PROVE  IInv'
<1>1. /\ sessions \in Nat /\ sessions' = sessions + 1 /\ session' = sessions + 1
      /\ sessions' \in sessions .. MaxSessions /\ session' \in 0 .. sessions'
      /\ session' # 0 /\ lapsed' = FALSE
      /\ UNCHANGED <<calls, expired, outside, lost>>
  BY ConnectionsAssumption
     DEF IInv, TypeOK, StartAuthorization, StoreSecret
<1>2. CASE acts' = acts + 1
  <2>1. /\ acts < MaxActs /\ StoreSecret(Client(acts + 1), "awaiting")
        /\ Entered(acts + 1, AtProvider)
    BY <1>2 DEF IInv, TypeOK, StartAuthorization
  <2>2. conn' \in [ status : {"pending", "active", "disabled"},
                    auth : {"awaiting", "authorized"},
                    secretRef : {TRUE} ]
    BY <2>1 DEF IInv, TypeOK, StoreSecret
  <2> QED
    BY <1>1, <1>2, <2>1, <2>2, EnteredIInv DEF StoreSecret, PutSecret
<1>3. CASE acts' = acts
  <2>1. /\ conn' = [conn EXCEPT !.auth = "awaiting"]
        /\ UNCHANGED <<latest, attached, acts, newest, overtaken>>
    BY <1>3 DEF IInv, TypeOK, StartAuthorization
  <2>2. TypeOK'
    <3>1. /\ redeemed' \subseteq 1 .. sessions'
          /\ conn' \in [ status : {"pending", "active", "disabled"},
                         auth : {"not_started", "awaiting", "authorized"},
                         secretRef : BOOLEAN ]
      BY <1>1, <2>1 DEF IInv, TypeOK, outside
    <3>2. attached' # NoSecret => conn'.secretRef
      BY <2>1 DEF IInv, TypeOK
    <3>3. /\ sessions' \in 0 .. MaxSessions
          /\ {latest, attached}' \subseteq Secret \cup {NoSecret}
          /\ attached'.kind # "ingest_client"
          /\ calls' \in [Calls -> Call]
      BY <1>1, <2>1 DEF IInv, TypeOK
    <3>4. /\ expired' \subseteq 1 .. issued' /\ issued' \in 0 .. MaxTokens
          /\ live' \subseteq [token : 1 .. issued', from : 1 .. acts']
          /\ acts' \in 0 .. MaxActs /\ newest' \in 0 .. acts'
          /\ overtaken' \in BOOLEAN /\ lost' \subseteq 1 .. issued'
      BY <1>1, <2>1 DEF IInv, TypeOK, outside
    <3> QED
      BY <1>1, <3>1, <3>2, <3>3, <3>4 DEF TypeOK
  <2>3. SecretsOK'
    <3>1. acts \in Nat /\ issued \in Nat
      BY DEF IInv, TypeOK
    <3>2. \A k \in Calls : CallOK(calls'[k], acts', issued', sessions')
      BY <1>1, <2>1, <3>1, Grows DEF IInv, SecretsOK, outside
    <3> QED
      BY <1>1, <2>1, <3>2 DEF IInv, SecretsOK, outside
  <2>4. AnswersAreNew' /\ AttachedIsLive'
    BY <1>1, <2>1 DEF IInv, AnswersAreNew, AttachedIsLive, Accepted, outside
  <2>5. CallsFollow' /\ NewestEntryIsUsed'
    BY <1>1, <2>1 DEF IInv, CallsFollow, AtProvider, NewestEntryIsUsed
  <2>6. AwaitedSessionExists'
    BY <1>1 DEF AwaitedSessionExists
  <2> QED
    BY <2>2, <2>3, <2>4, <2>5, <2>6 DEF IInv
<1> QED
  BY <1>2, <1>3 DEF StartAuthorization

LEMMA CompleteIInv == ASSUME IInv, CompleteWithCredentials PROVE IInv'
<1>1. conn' \in [ status : {"pending", "active", "disabled"},
                  auth : {"awaiting", "authorized"}, secretRef : {TRUE} ]
      /\ conn'.auth = "authorized"
  BY DEF IInv, TypeOK, CompleteWithCredentials, StoreSecret
<1>2. sessions' \in sessions .. MaxSessions /\ session' \in 0 .. sessions'
      /\ lapsed' \in BOOLEAN
  BY ConnectionsAssumption DEF IInv, TypeOK, CompleteWithCredentials
<1> QED
  BY <1>1, <1>2, EnteredIInv DEF CompleteWithCredentials, StoreSecret, PutSecret

LEMMA IngestIInv == ASSUME IInv, IssueIngestCredential PROVE IInv'
<1>1. /\ latest' = IngestClient
      /\ UNCHANGED <<conn, attached, session, sessions, calls, expired, outside,
                     history>>
  BY DEF IssueIngestCredential, PutSecret
<1>2. /\ IngestClient \in Secret /\ IngestClient.kind = "ingest_client"
      /\ IngestClient.token = 0 /\ IngestClient.renews = FALSE
  BY ConnectionsAssumption DEF IngestClient, Secret
<1>3. TypeOK'
  BY <1>1, <1>2 DEF IInv, TypeOK, outside, history
<1>4. SecretsOK'
  <2>1. issued \in Nat
    BY DEF IInv, TypeOK
  <2> QED
    BY <1>1, <1>2, <2>1 DEF IInv, SecretsOK, SecretOK, outside, history
<1>5. AnswersAreNew'
  BY <1>1, <1>2 DEF IInv, AnswersAreNew, SecretsOK, CallOK, Accepted, outside
<1>6. AttachedIsLive'
  BY <1>1 DEF IInv, AttachedIsLive, Accepted, outside, history
<1>7. CallsFollow' /\ NewestEntryIsUsed' /\ AwaitedSessionExists'
  BY <1>1, <1>2 DEF IInv, CallsFollow, AtProvider, NewestEntryIsUsed,
                    AwaitedSessionExists, history
<1> QED
  BY <1>3, <1>4, <1>5, <1>6, <1>7 DEF IInv

-----------------------------------------------------------------------------
(* Steps of a call *)

\* A call ends without a token: a failure, a lost answer, a test that passes.
LEMMA EndIInv ==
    ASSUME IInv, NEW k \in Calls, ProbePasses(k) \/ Fails(k) \/ LoseAnswer(k)
    PROVE  IInv'
<1>1. /\ calls' = [calls EXCEPT ![k] = Idle]
      /\ UNCHANGED <<latest, attached, session, sessions, expired, outside, acts,
                     newest, overtaken, lapsed>>
      /\ conn'.auth \in {conn.auth, "authorized"}
  BY DEF IInv, TypeOK, ProbePasses, Fails, LoseAnswer, history
<1>2. /\ lost' \subseteq 1 .. issued /\ lost \subseteq lost'
      /\ calls[k].at = "answered" /\ calls[k].op # "code" =>
            calls[k].using.token \in lost' \cup {0}
  <2>1. CASE LoseAnswer(k)
    <3>1. calls[k].using.token \in 0 .. issued
      BY DEF IInv, SecretsOK, CallOK, SecretOK
    <3>2. lost' = IF calls[k].op = "code" THEN lost
                  ELSE lost \cup ({calls[k].using.token} \ {0})
      BY <2>1 DEF LoseAnswer
    <3>3. issued \in Nat /\ lost \subseteq 1 .. issued
      BY ConnectionsAssumption DEF IInv, TypeOK
    <3>4. CASE calls[k].op = "code"
      BY <3>2, <3>3, <3>4
    <3>5. CASE calls[k].op # "code"
      <4> DEFINE n == calls[k].using.token
      <4>1. lost' = lost \cup ({n} \ {0})
        BY <3>2, <3>5
      <4>2. n # 0 => n \in 1 .. issued
        BY <3>1, <3>3
      <4> HIDE DEF n
      <4>3. lost' \subseteq 1 .. issued /\ lost \subseteq lost' /\ n \in lost' \cup {0}
        BY <3>3, <4>1, <4>2
      <4> QED
        BY <4>3 DEF n
    <3> QED
      BY <3>4, <3>5
  <2>2. CASE ProbePasses(k) \/ Fails(k)
    BY <2>2 DEF IInv, TypeOK, ProbePasses, Fails, history
  <2> QED
    BY <2>1, <2>2
<1>3. calls \in [Calls -> Call]
  BY DEF IInv, TypeOK
<1>4. TypeOK'
  <2>1. calls' \in [Calls -> Call]
    BY <1>1, <1>3, Literals
  <2>2. conn' \in [ status : {"pending", "active", "disabled"},
                    auth : {"not_started", "awaiting", "authorized"},
                    secretRef : BOOLEAN ]
        /\ conn'.secretRef = conn.secretRef
    BY DEF IInv, TypeOK, ProbePasses, Fails, LoseAnswer
  <2> QED
    BY <1>1, <1>2, <2>1, <2>2 DEF IInv, TypeOK, outside
<1>5. SecretsOK'
  <2>1. acts \in Nat /\ issued \in Nat /\ sessions \in Nat
    BY ConnectionsAssumption DEF IInv, TypeOK
  <2>2. \A j \in Calls : CallOK(calls'[j], acts, issued, sessions)
    BY <1>1, <1>3, <2>1, IdleOK DEF IInv, SecretsOK
  <2> QED
    BY <1>1, <2>2 DEF IInv, SecretsOK, outside
<1>6. AnswersAreNew'
  <2> SUFFICES ASSUME NEW i \in Calls, calls'[i].at = "answered"
               PROVE  /\ latest.token # calls[i].got
                      /\ attached.token # calls[i].got
                      /\ \A j \in Calls :
                            /\ calls'[j].using.token # calls[i].got
                            /\ calls'[j].at = "answered" /\ j # i =>
                                  calls'[j].got # calls[i].got
                      /\ calls[i].renews => Accepted(calls[i].got)
                      /\ calls'[i] = calls[i]
    BY <1>1 DEF AnswersAreNew, Accepted, outside
  <2>1. i # k /\ calls'[i] = calls[i] /\ calls[i].got # 0
    BY <1>1, <1>3, Literals DEF IInv, SecretsOK, CallOK
  <2> QED
    BY <1>1, <1>3, <2>1, Literals DEF IInv, AnswersAreNew
<1>7. AttachedIsLive'
  <2> SUFFICES ASSUME attached.renews, ~Accepted(attached.token),
                      attached.token \notin lost'
               PROVE  \E j \in Calls : /\ calls'[j].at = "answered"
                                       /\ calls'[j].op # "code"
                                       /\ calls'[j].using.token = attached.token
    BY <1>1 DEF AttachedIsLive, Accepted, outside
  <2>1. PICK j \in Calls : /\ calls[j].at = "answered"
                           /\ calls[j].op # "code"
                           /\ calls[j].using.token = attached.token
    BY <1>2 DEF IInv, AttachedIsLive
  <2>2. j # k
    BY <1>2, <2>1 DEF IInv, SecretsOK, SecretOK
  <2> QED
    BY <1>1, <1>3, <2>1, <2>2
<1>8. CallsFollow' /\ NewestEntryIsUsed'
  BY <1>1, <1>3, Literals DEF IInv, CallsFollow, AtProvider, NewestEntryIsUsed
<1>9. AwaitedSessionExists'
  BY <1>1 DEF IInv, AwaitedSessionExists
<1> QED
  BY <1>4, <1>5, <1>6, <1>7, <1>8, <1>9 DEF IInv

\* A call begins with the latest secret.
LEMMA BeginIInv ==
    ASSUME IInv, NEW k \in Calls,
           BeginCode(k) \/ \E op \in {"test", "access"} : Begin(k, op)
    PROVE  IInv'
<1> DEFINE Opens(c) ==
             /\ calls' = [calls EXCEPT ![k] = c]
             /\ c.at \in {"asked", "probe"} /\ c.using = latest
             /\ acts' \in acts .. MaxActs
             /\ c.op = "code" => /\ c.act = acts + 1 /\ c.act = acts'
                                 /\ c.session = session /\ session # 0
             /\ c.op # "code" /\ c.at = "asked" =>
                   latest.kind \in {"oauth2_client", "oauth2_token"}
             /\ UNCHANGED <<conn, latest, attached, session, sessions, expired,
                            outside, newest, overtaken, lost, lapsed>>
<1>1. PICK c \in Call : Opens(c)
  <2>0. acts \in 0 .. MaxActs /\ latest \in Secret \cup {NoSecret}
        /\ session \in 0 .. MaxSessions /\ MaxTokens \in Nat
        /\ MaxActs \in Nat /\ MaxSessions \in Nat
    BY ConnectionsAssumption DEF IInv, TypeOK
  <2>1. CASE BeginCode(k)
    <3> DEFINE c == [Idle EXCEPT !.op = "code", !.at = "asked", !.using = latest,
                                 !.session = session, !.act = acts + 1]
    <3>1. acts < MaxActs
      BY <2>1 DEF BeginCode
    <3>2. /\ c \in Call /\ c.op = "code" /\ c.at = "asked" /\ c.using = latest
          /\ c.session = session /\ c.act = acts + 1
      <4>1. acts + 1 \in 0 .. MaxActs
        BY <2>0, <3>1
      <4>2. "code" \in {"none", "test", "access", "code"}
            /\ "asked" \in {"idle", "asked", "answered", "probe"}
        OBVIOUS
      <4> QED
        BY <2>0, <4>1, <4>2, Literals DEF Call
    <3>3. calls' = [calls EXCEPT ![k] = c]
      BY <2>1 DEF BeginCode
    <3>4. acts' = acts + 1 /\ session # 0
          /\ UNCHANGED <<conn, latest, attached, session, sessions, expired,
                         outside, newest, overtaken, lost, lapsed>>
      BY <2>1 DEF BeginCode
    <3> HIDE DEF c
    <3>5. Opens(c)
      BY <2>0, <3>1, <3>2, <3>3, <3>4
    <3> QED
      BY <3>2, <3>5
  <2>2. ASSUME NEW op \in {"test", "access"}, NEW at \in {"asked", "probe"},
               at = "asked" => Sendable(latest),
               calls' = [calls EXCEPT ![k] =
                   [Idle EXCEPT !.op = op, !.at = at, !.using = latest]],
               UNCHANGED <<conn, latest, attached, session, sessions, expired,
                           outside, history>>
        PROVE  \E c \in Call : Opens(c)
    <3> DEFINE c == [Idle EXCEPT !.op = op, !.at = at, !.using = latest]
    <3>1. c \in Call /\ c.op = op /\ c.at = at /\ c.using = latest
      BY <2>0, Literals DEF Call
    <3>2. calls' = [calls EXCEPT ![k] = c]
      BY <2>2
    <3>4. at = "asked" => latest.kind \in {"oauth2_client", "oauth2_token"}
      BY <2>2 DEF Sendable
    <3>5. acts' \in acts .. MaxActs
          /\ UNCHANGED <<conn, latest, attached, session, sessions, expired,
                         outside, newest, overtaken, lost, lapsed>>
      BY <2>0, <2>2 DEF history
    <3> HIDE DEF c
    <3>7. Opens(c)
      BY <3>1, <3>2, <3>4, <3>5
    <3> QED
      BY <3>1, <3>7
  <2>3. ASSUME NEW op \in {"test", "access"}, Begin(k, op)
        PROVE  \E c \in Call : Opens(c)
    <3> HIDE DEF Opens
    <3>1. /\ UNCHANGED <<conn, latest, attached, session, sessions, expired,
                         outside, history>>
          /\ \/ /\ Sendable(latest)
                /\ calls' = [calls EXCEPT ![k] = [Idle EXCEPT !.op = op,
                                             !.at = "asked", !.using = latest]]
             \/ calls' = [calls EXCEPT ![k] = [Idle EXCEPT !.op = op,
                                             !.at = "probe", !.using = latest]]
      BY <2>3 DEF Begin
    <3> QED
      BY <2>2, <3>1
  <2> HIDE DEF Opens
  <2> QED
    BY <2>1, <2>3
<1>2. calls \in [Calls -> Call] /\ acts \in Nat /\ acts' \in Nat /\ issued \in Nat
      /\ sessions \in Nat /\ newest \in 0 .. acts /\ session \in 0 .. sessions
  BY <1>1, ConnectionsAssumption DEF IInv, TypeOK
<1>3. TypeOK'
  <2>1. calls' \in [Calls -> Call]
    BY <1>1, <1>2
  <2>2. /\ live \subseteq [token : 1 .. issued, from : 1 .. acts']
        /\ newest \in 0 .. acts' /\ acts' \in 0 .. MaxActs
    BY <1>1, <1>2 DEF IInv, TypeOK
  <2> QED
    BY <1>1, <2>1, <2>2 DEF IInv, TypeOK, outside
<1>4. SecretsOK'
  <2>1. CallOK(c, acts', issued, sessions)
    <3>1. SecretOK(latest, acts', issued)
      BY <1>1, <1>2, Grows DEF IInv, SecretsOK
    <3> QED
      BY <1>1, <1>2, <3>1 DEF CallOK
  <2>2. \A j \in Calls : CallOK(calls[j], acts', issued, sessions)
    BY <1>1, <1>2, Grows DEF IInv, SecretsOK
  <2>3. SecretOK(latest, acts', issued) /\ SecretOK(attached, acts', issued)
    BY <1>1, <1>2, Grows DEF IInv, SecretsOK
  <2> QED
    BY <1>1, <1>2, <2>1, <2>2, <2>3 DEF SecretsOK, outside
<1>5. AnswersAreNew'
  BY <1>1, <1>2 DEF IInv, AnswersAreNew, Accepted, outside
<1>6. AttachedIsLive'
  <2>1. calls[k] = Idle
    BY DEF BeginCode, Begin
  <2> QED
    BY <1>1, <1>2, <2>1, Literals DEF IInv, AttachedIsLive, Accepted, outside
<1>7. CallsFollow'
  BY <1>1, <1>2 DEF IInv, CallsFollow, AtProvider, NewestEntryIsUsed
<1>8. NewestEntryIsUsed' /\ AwaitedSessionExists'
  BY <1>1 DEF IInv, NewestEntryIsUsed, AwaitedSessionExists
<1> QED
  BY <1>3, <1>4, <1>5, <1>6, <1>7, <1>8 DEF IInv

\* The provider carries out a request.
LEMMA GrantIInv == ASSUME IInv, NEW k \in Calls, Grant(k) PROVE IInv'
<1> DEFINE c == calls[k]
           LiveNow(n) == \E g \in live' : g.token = n
           refresh == c.op # "code" /\ c.using.kind = "oauth2_token"
           renews == c.op = "code" \/ (refresh /\ Rotates)
           used == IF refresh /\ Rotates THEN {c.using.token} ELSE {}
           new == [c EXCEPT !.at = "answered", !.got = issued + 1,
                            !.renews = renews]
<1>1. /\ c.at = "asked" /\ issued < MaxTokens /\ issued' = issued + 1
      /\ calls' = [calls EXCEPT ![k] = new]
      /\ UNCHANGED <<conn, latest, attached, session, sessions, expired, history>>
      /\ redeemed' = IF c.op = "code" THEN redeemed \cup {c.session} ELSE redeemed
  BY DEF Grant
<1>2. /\ calls \in [Calls -> Call] /\ c \in Call
      /\ acts \in Nat /\ issued \in Nat /\ sessions \in Nat
      /\ issued + 1 \in 1 .. MaxTokens
      /\ CallOK(c, acts, issued, sessions)
  BY <1>1, ConnectionsAssumption DEF IInv, TypeOK, SecretsOK
<1>3. /\ live' = {g \in live : g.token \notin used}
                   \cup (IF renews THEN {[token |-> issued + 1, from |-> Origin(c)]}
                         ELSE {})
      /\ renews \in BOOLEAN
  BY DEF Grant
<1>4. Origin(c) \in 1 .. acts
  BY <1>1, <1>2 DEF CallOK, SecretOK, Origin
<1>5. /\ new \in Call /\ new.at = "answered" /\ new.got = issued + 1
      /\ new.renews = renews /\ new.op = c.op /\ new.using = c.using
      /\ new.act = c.act /\ new.session = c.session
  <2>1. issued + 1 \in 0 .. MaxTokens
    BY <1>2
  <2> QED
    BY <1>2, <1>3, <2>1 DEF Call
<1>6. /\ renews => LiveNow(issued + 1)
      /\ \A n : Accepted(n) /\ n \notin used => LiveNow(n)
  <2>1. ASSUME renews PROVE LiveNow(issued + 1)
    <3> DEFINE g == [token |-> issued + 1, from |-> Origin(c)]
    <3>1. g \in live' /\ g.token = issued + 1
      BY <1>3, <2>1
    <3> QED
      BY <3>1, Zenon DEF Accepted
  <2>2. ASSUME NEW g \in live, g.token \notin used
        PROVE  g \in live'
    BY <1>3, <2>2
  <2> QED
    BY <2>1, <2>2, Zenon DEF Accepted
<1> HIDE DEF new, renews
<1>7. TypeOK'
  <2>1. live' \subseteq [token : 1 .. issued', from : 1 .. acts']
    <3>1. live \subseteq [token : 1 .. issued', from : 1 .. acts']
      BY <1>1, <1>2 DEF IInv, TypeOK, history
    <3>2. [token |-> issued + 1, from |-> Origin(c)]
             \in [token : 1 .. issued', from : 1 .. acts']
      BY <1>1, <1>2, <1>4 DEF history
    <3> QED
      BY <1>3, <3>1, <3>2
  <2>2. redeemed' \subseteq 1 .. sessions
    BY <1>1, <1>2 DEF IInv, TypeOK, CallOK
  <2>3. calls' \in [Calls -> Call]
    BY <1>1, <1>2, <1>5
  <2>4. issued' \in 0 .. MaxTokens /\ expired \subseteq 1 .. issued'
        /\ lost \subseteq 1 .. issued'
    BY <1>1, <1>2 DEF IInv, TypeOK
  <2> QED
    BY <1>1, <2>1, <2>2, <2>3, <2>4 DEF IInv, TypeOK, history
<1>8. SecretsOK'
  <2>1. /\ SecretOK(latest, acts, issued + 1) /\ SecretOK(attached, acts, issued + 1)
        /\ \A j \in Calls : CallOK(calls[j], acts, issued + 1, sessions)
    BY <1>2, Grows DEF IInv, SecretsOK
  <2>2. CallOK(new, acts, issued + 1, sessions)
    BY <1>1, <1>2, <1>5, <2>1 DEF CallOK
  <2> QED
    BY <1>1, <1>2, <2>1, <2>2 DEF SecretsOK, history
<1>9. AnswersAreNew'
  <2>1. ASSUME NEW i \in Calls, i # k, calls[i].at = "answered"
        PROVE  /\ calls'[i] = calls[i]
               /\ latest.token # calls[i].got /\ attached.token # calls[i].got
               /\ \A j \in Calls : /\ calls'[j].using.token # calls[i].got
                                   /\ calls'[j].at = "answered" /\ j # i =>
                                         calls'[j].got # calls[i].got
               /\ calls[i].renews => LiveNow(calls[i].got)
    <3>1. calls[i].got \in 1 .. issued
      BY <2>1 DEF IInv, SecretsOK, CallOK
    <3>2. calls[i].got \notin used
      BY <2>1 DEF IInv, AnswersAreNew
    <3> QED
      BY <1>1, <1>2, <1>5, <1>6, <2>1, <3>1, <3>2 DEF IInv, AnswersAreNew
  <2>2. /\ latest.token # issued + 1 /\ attached.token # issued + 1
        /\ \A j \in Calls : /\ calls[j].using.token # issued + 1
                            /\ calls[j].at = "answered" => calls[j].got # issued + 1
    BY <1>2 DEF IInv, SecretsOK, CallOK, SecretOK
  <2>3. /\ \A j \in Calls : j # k => calls'[j] = calls[j]
        /\ calls'[k] = new
    BY <1>1, <1>2
  <2>4. ASSUME NEW j \in Calls
        PROVE  /\ calls'[j].using.token # issued + 1
               /\ calls'[j].at = "answered" /\ j # k => calls'[j].got # issued + 1
    BY <1>5, <2>2, <2>3
  <2>5. /\ UNCHANGED <<latest, attached>>
        /\ calls'[k].got = issued + 1 /\ calls'[k].renews = renews
    BY <1>1, <1>5, <2>3
  <2>6. \A i \in Calls : i # k /\ calls'[i].at = "answered" =>
            calls[i].at = "answered"
    BY <2>3
  <2> SUFFICES ASSUME NEW i \in Calls, calls'[i].at = "answered"
               PROVE  /\ latest.token # calls'[i].got
                      /\ attached.token # calls'[i].got
                      /\ \A j \in Calls :
                            /\ calls'[j].using.token # calls'[i].got
                            /\ calls'[j].at = "answered" /\ j # i =>
                                  calls'[j].got # calls'[i].got
                      /\ calls'[i].renews => LiveNow(calls'[i].got)
    BY <2>5, Zenon DEF AnswersAreNew, Accepted
  <2>7. CASE i = k
    BY <1>6, <2>2, <2>4, <2>5, <2>7
  <2>8. CASE i # k
    BY <2>1, <2>6, <2>8
  <2> QED
    BY <2>7, <2>8
<1>10. AttachedIsLive'
  <2> SUFFICES ASSUME attached.renews, ~LiveNow(attached.token),
                      attached.token \notin lost
               PROVE  \E j \in Calls : /\ calls'[j].at = "answered"
                                       /\ calls'[j].op # "code"
                                       /\ calls'[j].using.token = attached.token
    BY <1>1 DEF AttachedIsLive, Accepted, history
  <2>1. CASE Accepted(attached.token)
    <3>1. refresh /\ c.using.token = attached.token
      <4>1. attached.token \in used
        BY <1>6, <2>1, Zenon
      <4> QED
        BY <4>1
    <3> QED
      BY <1>1, <1>2, <1>5, <3>1
  <2>2. ASSUME NEW j \in Calls, calls[j].at = "answered", calls[j].op # "code",
               calls[j].using.token = attached.token
        PROVE  calls'[j] = calls[j]
    BY <1>1, <1>2, <2>2
  <2> QED
    BY <2>1, <2>2 DEF IInv, AttachedIsLive
<1>11. CallsFollow'
  BY <1>1, <1>2, <1>5 DEF IInv, CallsFollow, AtProvider, history
<1>12. NewestEntryIsUsed' /\ AwaitedSessionExists'
  BY <1>1 DEF IInv, NewestEntryIsUsed, AwaitedSessionExists, history
<1> QED
  BY <1>7, <1>8, <1>9, <1>10, <1>11, <1>12 DEF IInv

\* The answer of the provider arrives and is stored.
LEMMA ReceiveIInv == ASSUME IInv, NEW k \in Calls, Receive(k) PROVE IInv'
<1> DEFINE c == calls[k]
           token == Obtained(c)
           after == IF c.op = "test"
                    THEN [Idle EXCEPT !.op = "test", !.at = "probe",
                                      !.using = token]
                    ELSE Idle
<1>1. /\ c.at = "answered" /\ latest' = token /\ attached' = token
      /\ conn' = [conn EXCEPT !.secretRef = TRUE, !.auth = "authorized"]
      /\ session' = IF c.op = "code" THEN 0 ELSE session
      /\ calls' = [calls EXCEPT ![k] = after]
      /\ UNCHANGED <<sessions, expired, outside, acts, lost, lapsed>>
  BY DEF Receive, StoreSecret, PutSecret
<1>2. /\ calls \in [Calls -> Call] /\ c \in Call
      /\ acts \in 0 .. MaxActs /\ issued \in 0 .. MaxTokens /\ sessions \in Nat
      /\ newest \in 0 .. acts /\ MaxActs \in Nat /\ MaxTokens \in Nat
      /\ CallOK(c, acts, issued, sessions) /\ c.renews \in BOOLEAN
  BY ConnectionsAssumption DEF IInv, TypeOK, SecretsOK, Call
<1>3. Origin(c) \in 1 .. acts /\ c.got \in 1 .. issued
  BY <1>1, <1>2 DEF CallOK, SecretOK, Origin
<1>4. /\ token \in Secret /\ token.kind = "oauth2_token"
      /\ token.from = Origin(c) /\ token.token = c.got /\ token.renews = c.renews
  BY <1>2, <1>3 DEF Obtained, Token, Secret
<1> HIDE DEF token
<1>5. /\ after \in Call /\ after.at \notin {"asked", "answered"}
      /\ after.op # "code" /\ after.using \in {token, NoSecret}
  BY <1>4, Literals DEF Call
<1> HIDE DEF after
<1>6. /\ \A j \in Calls : j # k => calls'[j] = calls[j]
      /\ calls'[k] = after
  BY <1>1, <1>2
<1>7. newest' \in 0 .. acts /\ overtaken' \in BOOLEAN
  <2>1. CASE c.op = "code" /\ c.act > newest
    <3>1. newest' = c.act /\ overtaken' = (AtProvider \ {k} # {})
      BY <2>1 DEF Receive, Entered
    <3> QED
      BY <1>2, <2>1, <3>1 DEF CallOK
  <2>2. CASE ~(c.op = "code" /\ c.act > newest)
    BY <2>2 DEF IInv, TypeOK, Receive
  <2> QED
    BY <2>1, <2>2
<1>8. TypeOK'
  <2>1. conn' \in [ status : {"pending", "active", "disabled"},
                    auth : {"not_started", "awaiting", "authorized"},
                    secretRef : BOOLEAN ]
        /\ conn'.secretRef
    BY <1>1 DEF IInv, TypeOK
  <2>2. calls' \in [Calls -> Call] /\ session' \in 0 .. sessions
    BY <1>1, <1>2, <1>5 DEF IInv, TypeOK
  <2> QED
    BY <1>1, <1>4, <1>7, <2>1, <2>2 DEF IInv, TypeOK, outside
<1>9. SecretsOK'
  <2>1. SecretOK(token, acts, issued)
    BY <1>2, <1>3, <1>4 DEF SecretOK
  <2>2. CallOK(after, acts, issued, sessions)
    BY <1>2, <1>5, <2>1, IdleOK DEF CallOK
  <2> QED
    BY <1>1, <1>6, <2>1, <2>2 DEF IInv, SecretsOK, outside
<1>10. AnswersAreNew'
  <2> SUFFICES ASSUME NEW i \in Calls, calls'[i].at = "answered"
               PROVE  /\ token.token # calls[i].got
                      /\ \A j \in Calls :
                            /\ calls'[j].using.token # calls[i].got
                            /\ calls'[j].at = "answered" /\ j # i =>
                                  calls'[j].got # calls[i].got
                      /\ calls[i].renews => Accepted(calls[i].got)
                      /\ calls'[i] = calls[i]
    BY <1>1 DEF AnswersAreNew, Accepted, outside
  <2>1. i # k /\ calls'[i] = calls[i]
    BY <1>5, <1>6
  <2>2. c.got # calls[i].got /\ calls[i].got # 0
    BY <1>1, <2>1 DEF IInv, AnswersAreNew, SecretsOK, CallOK
  <2> QED
    BY <1>4, <1>5, <1>6, <2>1, <2>2, Literals DEF IInv, AnswersAreNew
<1>11. AttachedIsLive'
  BY <1>1, <1>4 DEF IInv, AnswersAreNew, AttachedIsLive, Accepted, outside
<1>12. CallsFollow' /\ NewestEntryIsUsed'
  <2> SUFFICES ASSUME ~overtaken'
               PROVE  /\ Origin(c) = newest'
                      /\ \A j \in AtProvider \ {k} :
                            IF calls[j].op = "code" THEN calls[j].act > newest'
                            ELSE calls[j].using.from = newest'
    BY <1>1, <1>4, <1>5, <1>6
       DEF CallsFollow, AtProvider, NewestEntryIsUsed
  <2>1. k \in AtProvider
    BY <1>1 DEF AtProvider
  <2>2. CASE c.op = "code" /\ c.act > newest
    BY <2>2 DEF Receive, Entered, Origin
  <2>3. CASE ~(c.op = "code" /\ c.act > newest)
    <3>1. UNCHANGED <<newest, overtaken>>
      BY <2>3 DEF Receive
    <3> QED
      BY <2>1, <2>3, <3>1 DEF IInv, CallsFollow, Origin
  <2> QED
    BY <2>2, <2>3
<1>13. AwaitedSessionExists'
  BY <1>1 DEF IInv, TypeOK, AwaitedSessionExists
<1> QED
  BY <1>8, <1>9, <1>10, <1>11, <1>12, <1>13 DEF IInv

-----------------------------------------------------------------------------

LEMMA NextIInv == IInv /\ [Next]_vars => IInv'
<1> SUFFICES ASSUME IInv, [Next]_vars PROVE IInv'
  OBVIOUS
<1>1. CASE UNCHANGED vars
  BY <1>1 DEF IInv, TypeOK, SecretsOK, AnswersAreNew, AttachedIsLive, CallsFollow,
       AtProvider, Accepted, NewestEntryIsUsed, AwaitedSessionExists, vars,
       outside, history
<1>2. CASE Next
  BY <1>2, QuietIInv, StartIInv, CompleteIInv, IngestIInv, BeginIInv, GrantIInv,
     ReceiveIInv, EndIInv DEF Next
<1> QED
  BY <1>1, <1>2

LEMMA Invariance == Spec => []IInv
  BY InitIInv, NextIInv, PTL DEF Spec

\* Whatever the provider answers, loses or refuses, and however many calls are
\* in progress, the store and the calls keep their types.
THEOREM TypeCorrect == Spec => []TypeOK
<1>1. IInv => TypeOK
  BY DEF IInv
<1> QED
  BY <1>1, Invariance, PTL

\* The credentials in use are those an operator entered last, unless a call was
\* at the provider when they were stored.
THEOREM NewestIsUsed == Spec => []NewestEntryIsUsed
<1>1. IInv => NewestEntryIsUsed
  BY DEF IInv
<1> QED
  BY <1>1, Invariance, PTL

\* No interleaving takes the session of an authorization that is awaited,
\* except its expiry.
THEOREM SessionIsKept == Spec => []AwaitedSessionExists
<1>1. IInv => AwaitedSessionExists
  BY DEF IInv
<1> QED
  BY <1>1, Invariance, PTL

\* Of any number of concurrent refreshes that rotate the refresh token, none
\* leaves a token in the store that the provider no longer accepts, while no
\* answer is on its way or lost.
THEOREM StoredTokenLives == Spec => []StoredTokenIsLive
<1>1. IInv => StoredTokenIsLive
  BY DEF IInv, AttachedIsLive, StoredTokenIsLive
<1> QED
  BY <1>1, Invariance, PTL
=============================================================================
