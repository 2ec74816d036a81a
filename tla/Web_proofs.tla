----------------------------- MODULE Web_proofs -----------------------------
(***************************************************************************)
(* Proofs about what one sees of the jobs from outside, for any number of  *)
(* clients, handlers, changes and failures.                                *)
(*                                                                         *)
(* Submissions over HTTP: what a client is told rests on two facts, that a *)
(* row has one creator, for good, who asked for it, and that a handler     *)
(* that meets a row of its own client is not the only one that client has  *)
(* sent.  The pages: no list takes the place of a later one, and what is   *)
(* submitted fits the schema it was selected in.  Lists of jobs: ORDER BY  *)
(* is a strict total order, so it has one listing, and a list is its       *)
(* beginning.                                                              *)
(***************************************************************************)
EXTENDS WebApi, WebPages, JobQueries, Ordering_proofs, SequenceTheorems

\* The API.

States == {"idle", "waiting", "unsure", "created", "refused", "conflict", "missing"}

WTyped ==
  /\ clients \in [Clients -> [state : States, d : Destinations \cup {Malformed},
                              sends : Nat, job : Clients]]
  /\ handlers \subseteq [client : Clients, send : Nat \ {0},
                         d : Destinations \cup {Malformed}, at : {"create", "get"}]
  /\ DOMAIN creator = DOMAIN jobs
  /\ DOMAIN jobs \subseteq Destinations

\* The creator of a row has sent a submission for it.
CreatorsAsked ==
  \A d \in DOMAIN creator :
    creator[d] \in Clients /\ clients[creator[d]].d = d /\ clients[creator[d]].sends > 0

Serves(h) ==
  /\ h.d = clients[h.client].d /\ h.send <= clients[h.client].sends
  /\ h.at = "get" => h.d \in DOMAIN jobs /\ creator[h.d] = h.client
  /\ h.at = "create" /\ h.d \in DOMAIN jobs /\ creator[h.d] = h.client =>
       clients[h.client].sends > 1

HandlersServe == \A h \in handlers : Serves(h)

HandlersDiffer ==
  \A g, h \in handlers : g.client = h.client /\ g.send = h.send => g = h

Told(c) ==
  /\ clients[c].state # "missing"
  /\ clients[c].state = "idle" => clients[c].sends = 0
  /\ clients[c].state = "refused" => clients[c].d = Malformed
  /\ clients[c].state = "created" =>
       clients[c].job = c /\ clients[c].d \in DOMAIN jobs /\ creator[clients[c].d] = c
  /\ clients[c].state = "conflict" =>
       /\ clients[c].d \in DOMAIN jobs
       /\ creator[clients[c].d] = c => clients[c].sends > 1

\* The inductive invariant.
WInv ==
  WTyped /\ CreatorsAsked /\ HandlersServe /\ HandlersDiffer /\ \A c \in Clients : Told(c)

LEMMA WInvHolds == WInit => WInv
BY DEF WInit, Init, WInv, WTyped, CreatorsAsked, HandlersServe, HandlersDiffer, Told, States

-----------------------------------------------------------------------------
LEMMA SendKeepsInv ==
  ASSUME WInv, NEW c \in Clients, Send(c)
  PROVE  WInv'
<1> DEFINE old == clients[c]
           send == old.sends + 1
<1>0. PICK d \in Destinations \cup {Malformed} :
        /\ clients' = [clients EXCEPT ![c].state = "waiting", ![c].d = d, ![c].sends = send]
        /\ handlers' = handlers \cup {[client |-> c, send |-> send, d |-> d, at |-> "create"]}
        /\ old.state = "idle" \/ d = old.d
        /\ UNCHANGED <<jobs, creator>>
  BY DEF Send, WInv, WTyped
<1>1. /\ old \in [state : States, d : Destinations \cup {Malformed}, sends : Nat, job : Clients]
      /\ old.state = "idle" => old.sends = 0
  BY DEF WInv, WTyped, Told
<1> DEFINE new == [old EXCEPT !.state = "waiting", !.d = d, !.sends = send]
           h   == [client |-> c, send |-> send, d |-> d, at |-> "create"]
<1>2. /\ clients' = [clients EXCEPT ![c] = new] /\ handlers' = handlers \cup {h}
      /\ jobs' = jobs /\ creator' = creator
      /\ old.state = "idle" \/ d = old.d
  BY <1>0
<1>3. send \in Nat \ {0} /\ send = old.sends + 1 /\ old.sends \in Nat
  BY <1>1
<1>4. /\ h.client = c /\ h.send = send /\ h.d = d /\ h.at = "create"
      /\ h \in [client : Clients, send : Nat \ {0},
                d : Destinations \cup {Malformed}, at : {"create", "get"}]
  <2> HIDE DEF send
  <2> QED  BY <1>3
<1> HIDE DEF send, h, old
<1>5. /\ new \in [state : States, d : Destinations \cup {Malformed}, sends : Nat, job : Clients]
      /\ new.state = "waiting" /\ new.d = d /\ new.sends = send
  BY <1>1, <1>3 DEF States
<1> HIDE DEF new
<1>6. /\ clients'[c] = new
      /\ \A b \in Clients \ {c} : clients'[b] = clients[b]
  BY <1>2 DEF WInv, WTyped
<1>7. WTyped'
  <2>1. clients' \in [Clients -> [state : States, d : Destinations \cup {Malformed},
                                  sends : Nat, job : Clients]]
    BY <1>2, <1>5 DEF WInv, WTyped
  <2>2. handlers' \subseteq [client : Clients, send : Nat \ {0},
                             d : Destinations \cup {Malformed}, at : {"create", "get"}]
    BY <1>2, <1>4 DEF WInv, WTyped
  <2> QED  BY <1>2, <2>1, <2>2 DEF WInv, WTyped
\* What the clients had sent before is sent.
<1>8. \A b \in Clients :
        /\ clients'[b].sends >= clients[b].sends
        /\ clients[b].sends > 0 => clients'[b].d = clients[b].d
        /\ clients[b].sends \in Nat
  <2> SUFFICES ASSUME NEW b \in Clients
               PROVE  /\ clients'[b].sends >= clients[b].sends
                      /\ clients[b].sends > 0 => clients'[b].d = clients[b].d
                      /\ clients[b].sends \in Nat
    OBVIOUS
  <2>1. clients[b].sends \in Nat
    BY DEF WInv, WTyped
  <2>2. CASE b = c
    <3>1. clients[b] = old
      BY <2>2 DEF old
    <3>2. clients'[b] = new
      BY <1>6, <2>2
    <3> QED  BY <1>1, <1>2, <1>3, <1>5, <3>1, <3>2
  <2>3. CASE b # c
    BY <1>6, <2>1, <2>3
  <2> QED  BY <2>2, <2>3
<1>9. CreatorsAsked'
  <2> SUFFICES ASSUME NEW e \in DOMAIN creator
               PROVE  creator[e] \in Clients /\ clients'[creator[e]].d = e
                      /\ clients'[creator[e]].sends > 0
    BY <1>2 DEF CreatorsAsked
  <2>1. creator[e] \in Clients /\ clients[creator[e]].d = e /\ clients[creator[e]].sends > 0
    BY DEF WInv, CreatorsAsked
  <2>2. clients'[creator[e]].sends \in Nat
    BY <1>7, <2>1 DEF WTyped
  <2> QED  BY <1>8, <2>1, <2>2
<1>10. \A g \in handlers :
         /\ Serves(g) /\ g.client \in Clients /\ g.send \in Nat \ {0}
         /\ clients[g.client].sends > 0 /\ clients'[g.client].sends \in Nat
  <2> SUFFICES ASSUME NEW g \in handlers
               PROVE  /\ Serves(g) /\ g.client \in Clients /\ g.send \in Nat \ {0}
                      /\ clients[g.client].sends > 0 /\ clients'[g.client].sends \in Nat
    OBVIOUS
  <2>1. Serves(g) /\ g.client \in Clients /\ g.send \in Nat \ {0}
    BY DEF WInv, WTyped, HandlersServe
  <2>2. clients[g.client].sends \in Nat /\ clients'[g.client].sends \in Nat
    BY <1>7, <2>1 DEF WInv, WTyped
  <2> QED  BY <2>1, <2>2 DEF Serves
<1>11. HandlersServe'
  <2>1. ASSUME NEW g \in handlers
        PROVE  Serves(g)'
    <3>1. /\ clients'[g.client].sends >= clients[g.client].sends
          /\ clients'[g.client].d = clients[g.client].d
          /\ clients[g.client].sends \in Nat /\ clients'[g.client].sends \in Nat
      BY <1>8, <1>10
    <3> QED  BY <1>2, <1>10, <3>1 DEF Serves
  <2>2. h.d = clients'[h.client].d /\ h.send <= clients'[h.client].sends
    BY <1>3, <1>4, <1>5, <1>6
  <2>3. ASSUME h.d \in DOMAIN jobs, creator[h.d] = h.client
        PROVE  clients'[h.client].sends > 1
    <3>1. clients[c].sends > 0
      BY <1>4, <2>3 DEF WInv, WTyped, CreatorsAsked
    <3>2. old.sends > 0
      BY <3>1 DEF old
    <3> QED  BY <1>3, <1>4, <1>5, <1>6, <3>2
  <2>4. \A k \in handlers' : k = h \/ k \in handlers
    BY <1>2
  <2>5. jobs' = jobs /\ creator' = creator /\ h.at = "create"
    BY <1>2, <1>4
  <2> SUFFICES ASSUME NEW k \in handlers'
               PROVE  Serves(k)'
    BY DEF HandlersServe
  <2>6. CASE k \in handlers
    BY <2>1, <2>6
  <2>7. CASE k = h
    <3>1. k.d = clients'[k.client].d /\ k.send <= clients'[k.client].sends /\ k.at # "get"
      BY <2>2, <2>5, <2>7
    <3>2. k.d \in DOMAIN jobs' /\ creator'[k.d] = k.client => clients'[k.client].sends > 1
      BY <2>3, <2>5, <2>7
    <3> QED  BY <3>1, <3>2 DEF Serves
  <2> QED  BY <2>4, <2>6, <2>7
<1>12. HandlersDiffer'
  <2>1. \A g \in handlers : ~(g.client = h.client /\ g.send = h.send)
    <3> SUFFICES ASSUME NEW g \in handlers, g.client = c, g.send = send
                 PROVE  FALSE
      BY <1>4
    <3>1. send <= old.sends
      BY <1>10 DEF Serves, old
    <3> QED  BY <1>3, <3>1
  <2> QED  BY <1>2, <2>1 DEF WInv, HandlersDiffer
<1>13. ASSUME NEW b \in Clients
       PROVE  Told(b)'
  <2>1. CASE b = c
    BY <1>5, <1>6, <2>1 DEF Told
  <2>2. CASE b # c
    BY <1>2, <1>6, <2>2 DEF WInv, Told
  <2> QED  BY <2>1, <2>2
<1> QED  BY <1>7, <1>9, <1>11, <1>12, <1>13 DEF WInv

LEMMA GiveUpKeepsInv ==
  ASSUME WInv, NEW c \in Clients, GiveUp(c)
  PROVE  WInv'
<1>1. /\ clients[c] \in [state : States, d : Destinations \cup {Malformed},
                         sends : Nat, job : Clients]
      /\ clients' = [clients EXCEPT ![c] = [clients[c] EXCEPT !.state = "unsure"]]
      /\ UNCHANGED <<jobs, creator, handlers>>
  BY DEF GiveUp, WInv, WTyped
<1>2. /\ clients'[c].state = "unsure" /\ clients'[c].d = clients[c].d
      /\ clients'[c].sends = clients[c].sends /\ clients'[c] \in
           [state : States, d : Destinations \cup {Malformed}, sends : Nat, job : Clients]
      /\ \A b \in Clients \ {c} : clients'[b] = clients[b]
      /\ clients' = [b \in Clients |-> clients'[b]]
  BY <1>1 DEF WInv, WTyped, States
<1>3. WTyped'
  BY <1>1, <1>2 DEF WInv, WTyped
<1>4. \A b \in Clients : clients'[b].d = clients[b].d /\ clients'[b].sends = clients[b].sends
  BY <1>2
<1>5. CreatorsAsked'
  BY <1>1, <1>4 DEF WInv, CreatorsAsked
<1>6. HandlersServe' /\ HandlersDiffer'
  BY <1>1, <1>4 DEF WInv, WTyped, HandlersServe, HandlersDiffer, Serves
<1>7. ASSUME NEW b \in Clients
      PROVE  Told(b)'
  BY <1>1, <1>2 DEF WInv, Told
<1> QED  BY <1>3, <1>5, <1>6, <1>7 DEF WInv

\* An answer that is true may be given while nothing is stored.
LEMMA AnswerKeepsInv ==
  ASSUME WInv, NEW h \in handlers, NEW state \in States \ {"idle", "missing"}, NEW job \in Clients,
         Answer(h, state, job), UNCHANGED <<jobs, creator>>,
         state = "refused"  => h.d = Malformed,
         state = "created"  => job = h.client /\ h.d \in DOMAIN jobs /\ creator[h.d] = h.client,
         state = "conflict" => h.at = "create" /\ h.d \in DOMAIN jobs
  PROVE  WInv'
<1> DEFINE c == h.client
           R == [state : States, d : Destinations \cup {Malformed}, sends : Nat, job : Clients]
<1>1. c \in Clients /\ Serves(h) /\ clients \in [Clients -> R] /\ clients[c] \in R
  BY DEF WInv, WTyped, HandlersServe
<1> DEFINE new == [clients[c] EXCEPT !.state = state, !.job = job]
<1>2. clients' = clients \/ clients' = [clients EXCEPT ![c] = new]
  BY DEF Answer
<1>0. new \in R /\ new.state = state /\ new.job = job
      /\ new.d = clients[c].d /\ new.sends = clients[c].sends
  BY <1>1
<1> HIDE DEF c, new
<1>3. /\ clients' \in [Clients -> R]
      /\ \A b \in Clients : clients'[b].d = clients[b].d /\ clients'[b].sends = clients[b].sends
      /\ \A b \in Clients : clients'[b] = clients[b] \/ b = c
      /\ clients'[c] = clients[c] \/ (clients'[c].state = state /\ clients'[c].job = job)
  <2>1. CASE clients' = clients
    BY <1>1, <2>1
  <2>2. CASE clients' = [clients EXCEPT ![c] = new]
    <3>1. /\ clients' \in [Clients -> R] /\ clients'[c] = new
          /\ \A b \in Clients : b # c => clients'[b] = clients[b]
      BY <1>0, <1>1, <2>2
    <3> QED  BY <1>0, <3>1
  <2> QED  BY <1>2, <2>1, <2>2
<1>4. handlers' \subseteq handlers
  BY DEF Answer
<1>5. WTyped'
  BY <1>3, <1>4 DEF WInv, WTyped
<1>6. CreatorsAsked'
  BY <1>3 DEF WInv, CreatorsAsked
<1>7. HandlersServe' /\ HandlersDiffer'
  BY <1>3, <1>4 DEF WInv, WTyped, HandlersServe, HandlersDiffer, Serves
<1>8. ASSUME NEW b \in Clients
      PROVE  Told(b)'
  <2>1. CASE clients'[b] = clients[b]
    BY <2>1 DEF WInv, Told
  <2>2. CASE clients'[b] # clients[b]
    <3>1. b = c /\ clients'[b].state = state /\ clients'[b].job = job
          /\ clients'[b].d = h.d /\ clients'[b].sends = clients[b].sends
      BY <1>1, <1>3, <2>2 DEF Serves, c
    <3> QED  BY <1>1, <3>1 DEF Told, Serves, c
  <2> QED  BY <2>1, <2>2
<1> QED  BY <1>5, <1>6, <1>7, <1>8 DEF WInv

\* Storing a submission, whatever becomes of its handler.
LEMMA StoreKeepsInv ==
  ASSUME WInv, NEW h \in handlers, h.at = "create", Stored(h), NEW job \in Clients,
         \/ handlers' = (handlers \ {h}) \cup {[h EXCEPT !.at = "get"]} /\ UNCHANGED clients
         \/ Answer(h, "unsure", job)
  PROVE  WInv'
<1> DEFINE c == h.client
           d == h.d
           R == [state : States, d : Destinations \cup {Malformed}, sends : Nat, job : Clients]
           H == [client : Clients, send : Nat \ {0}, d : Destinations \cup {Malformed},
                 at : {"create", "get"}]
           g == [h EXCEPT !.at = "get"]
<1>1. /\ c \in Clients /\ Serves(h) /\ clients \in [Clients -> R] /\ clients[c] \in R
      /\ h \in H
  BY DEF WInv, WTyped, HandlersServe
<1>2. g \in H /\ g.client = c /\ g.send = h.send /\ g.d = d /\ g.at = "get"
  BY <1>1
<1>3. /\ d \notin DOMAIN jobs /\ d \in Destinations
      /\ DOMAIN jobs' = DOMAIN jobs \cup {d} /\ DOMAIN creator' = DOMAIN creator \cup {d}
      /\ creator'[d] = c /\ \A e \in DOMAIN creator : e # d => creator'[e] = creator[e]
  BY DEF Stored, CreateJob
<1> DEFINE new == [clients[c] EXCEPT !.state = "unsure", !.job = job]
<1>4. clients' = clients \/ clients' = [clients EXCEPT ![c] = new]
  BY DEF Answer
<1>0. new \in R /\ new.state = "unsure"
      /\ new.d = clients[c].d /\ new.sends = clients[c].sends
  BY <1>1 DEF States
<1>5. handlers' \subseteq (handlers \ {h}) \cup {g}
  BY DEF Answer
<1> HIDE DEF c, g, d, new
<1>6. /\ clients' \in [Clients -> R]
      /\ \A b \in Clients : clients'[b].d = clients[b].d /\ clients'[b].sends = clients[b].sends
      /\ \A b \in Clients : clients'[b] = clients[b] \/ clients'[b].state = "unsure"
  <2>1. CASE clients' = clients
    BY <1>1, <2>1
  <2>2. CASE clients' = [clients EXCEPT ![c] = new]
    <3>1. /\ clients' \in [Clients -> R] /\ clients'[c] = new
          /\ \A b \in Clients : b # c => clients'[b] = clients[b]
      BY <1>0, <1>1, <2>2
    <3> QED  BY <1>0, <3>1
  <2> QED  BY <1>4, <2>1, <2>2
<1>7. WTyped'
  BY <1>2, <1>3, <1>5, <1>6 DEF WInv, WTyped
<1>8. CreatorsAsked'
  <2>1. clients[c].d = d /\ clients[c].sends > 0
    BY <1>1 DEF Serves, c, d
  <2> QED  BY <1>1, <1>3, <1>6, <2>1 DEF WInv, WTyped, CreatorsAsked
<1>9. HandlersServe'
  <2>1. ASSUME NEW k \in handlers \ {h}
        PROVE  Serves(k)'
    <3>1. Serves(k) /\ k \in H
      BY DEF WInv, WTyped, HandlersServe
    <3>2. k.at = "get" => k.d \in DOMAIN jobs /\ k.d # d
      BY <1>3, <3>1 DEF Serves
    <3>3. k.client = c => clients[c].sends > 1
      <4>1. k.client = c => k.send # h.send
        BY DEF WInv, HandlersDiffer, c
      <4>2. h.send <= clients[c].sends /\ h.send \in Nat \ {0} /\ k.send \in Nat \ {0}
            /\ clients[c].sends \in Nat
        BY <1>1, <3>1 DEF Serves, c
      <4> QED  BY <3>1, <4>1, <4>2 DEF Serves
    <3> QED  BY <1>3, <1>6, <3>1, <3>2, <3>3 DEF Serves, WInv, WTyped
  <2>2. Serves(g)'
    BY <1>1, <1>2, <1>3, <1>6 DEF Serves, c, d
  <2> QED  BY <1>5, <2>1, <2>2 DEF HandlersServe
<1>10. HandlersDiffer'
  <2>1. \A k \in handlers \ {h} : ~(k.client = g.client /\ k.send = g.send)
    BY <1>2 DEF WInv, HandlersDiffer, c
  <2> QED  BY <1>5, <2>1 DEF WInv, HandlersDiffer
<1>11. ASSUME NEW b \in Clients
       PROVE  Told(b)'
  <2>1. CASE clients'[b] = clients[b]
    BY <1>3, <2>1 DEF WInv, WTyped, Told
  <2>2. CASE clients'[b].state = "unsure"
    BY <2>2 DEF Told
  <2> QED  BY <1>6, <2>1, <2>2
<1> QED  BY <1>7, <1>8, <1>9, <1>10, <1>11 DEF WInv

LEMMA HandlerKeepsInv ==
  ASSUME WInv, NEW h \in handlers,
         \/ Refuse(h) \/ Insert(h) \/ Conflict(h) \/ InsertFails(h)
         \/ ReadBack(h) \/ ReadFails(h) \/ Drop(h)
  PROVE  WInv'
<1>0. h.client \in Clients /\ Serves(h)
  BY DEF WInv, WTyped, HandlersServe
<1>1. CASE Refuse(h)
  BY <1>0, <1>1, AnswerKeepsInv DEF Refuse, States
<1>2. CASE Insert(h)
  BY <1>0, <1>2, StoreKeepsInv DEF Insert
<1>3. CASE Conflict(h)
  BY <1>0, <1>3, AnswerKeepsInv DEF Conflict, States
<1>4. CASE InsertFails(h)
  <2>1. CASE Stored(h)
    BY <1>0, <1>4, <2>1, StoreKeepsInv DEF InsertFails
  <2>2. CASE UNCHANGED <<jobs, creator>>
    BY <1>0, <1>4, <2>2, AnswerKeepsInv DEF InsertFails, States
  <2> QED  BY <1>4, <2>1, <2>2 DEF InsertFails
<1>5. CASE ReadBack(h)
  <2>1. h.d \in DOMAIN jobs /\ creator[h.d] = h.client
    BY <1>0, <1>5 DEF ReadBack, Serves
  <2> QED  BY <1>0, <1>5, <2>1, AnswerKeepsInv DEF ReadBack, States
<1>6. CASE ReadFails(h)
  BY <1>0, <1>6, AnswerKeepsInv DEF ReadFails, States
<1>7. CASE Drop(h)
  BY <1>7 DEF Drop, WInv, WTyped, CreatorsAsked, HandlersServe, HandlersDiffer, Serves, Told
<1> QED  BY <1>1, <1>2, <1>3, <1>4, <1>5, <1>6, <1>7

\* The reconcilers neither add rows nor take any away.
LEMMA WorkKeepsInv ==
  ASSUME WInv, Work
  PROVE  WInv'
<1>1. DOMAIN jobs' = DOMAIN jobs
  BY DEF Work, Claim, ClaimJobs, ClaimBatch, WorkerCall, RenewLease, CheckpointProgress,
         CompleteJob, FailJob, Update
<1> QED
  BY <1>1 DEF Work, WInv, WTyped, CreatorsAsked, HandlersServe, HandlersDiffer, Serves, Told

LEMMA WInvKept == WInv /\ [WNext]_wvars => WInv'
<1>1. WInv /\ UNCHANGED wvars => WInv'
  BY DEF wvars, WInv, WTyped, CreatorsAsked, HandlersServe, HandlersDiffer, Serves, Told
<1> QED
  BY <1>1, SendKeepsInv, GiveUpKeepsInv, HandlerKeepsInv, WorkKeepsInv DEF WNext

\* The inductive invariant holds of all submissions.
THEOREM WInvariance == WSpec => []WInv
BY WInvHolds, WInvKept, PTL DEF WSpec

\* A client that was told 201 owns its job, and none is told 404.
THEOREM CreationsAreOwn == WSpec => []CreatedIsOwn
<1>1. WInv => CreatedIsOwn
  BY DEF WInv, Told, CreatedIsOwn
<1> QED  BY <1>1, WInvariance, PTL

\* A client that was told 409 or 400 was told the truth.
THEOREM RefusalsTrue == WSpec => []RefusalsAreTrue
<1>1. WInv => RefusalsAreTrue
  <2> SUFFICES ASSUME WInv, NEW c \in Clients, clients[c].state = "refused",
                      NEW d \in DOMAIN jobs
               PROVE  creator[d] # c
    BY DEF WInv, Told, RefusalsAreTrue
  <2>1. clients[c].d = Malformed /\ d \in Destinations
    BY DEF WInv, Told, WTyped
  <2> QED  BY <2>1, MalformedIsNoDestination DEF WInv, CreatorsAsked, WTyped
<1> QED  BY <1>1, WInvariance, PTL

-----------------------------------------------------------------------------
\* The jobs page.

Requested == [query : Queries, at : {"sent", "read"}, version : Nat]

JobsTypeOK ==
  /\ version \in Nat
  /\ query \in Queries
  /\ loading \in BOOLEAN
  /\ requests \subseteq Requested
  /\ body \subseteq [query : Queries, version : Nat]

\* The flag admits one request at a time, so that the list rendered last is older
\* than every answer under way.
JobsInv ==
  /\ JobsTypeOK
  /\ ~loading => requests = {}
  /\ \A r, s \in requests : r = s
  /\ \A r \in requests : r.version <= version
  /\ \A old, new \in body : old = new
  /\ \A old \in body :
       /\ old.version <= version
       /\ \A r \in requests : r.at = "read" => old.version <= r.version

LEMMA UnfilteredIsAQuery == Unfiltered \in Queries
BY NoFilterIsAFilter DEF Unfiltered, Queries, Sorts, Fields

\* A new request is one of the kind, and not yet read.
LEMMA RequestsAreRequested ==
  ASSUME NEW q \in Queries
  PROVE  Request(q) \in Requested /\ Request(q).at = "sent" /\ Request(q).version = 0
BY DEF Request, Requested

\* loadJobs keeps the invariant, whatever query it is called with.
LEMMA LoadJobsKeepsInv ==
  ASSUME JobsInv, NEW q \in Queries, LoadJobs(q), query' \in Queries,
         UNCHANGED <<version, body>>
  PROVE  JobsInv'
<1>1. CASE loading /\ UNCHANGED <<loading, requests, view>>
  BY <1>1 DEF JobsInv, JobsTypeOK
<1>2. CASE /\ ~loading /\ loading' = TRUE
           /\ requests' = requests \cup {Request(q)}
  <2>1. requests' = {Request(q)}
    BY <1>2 DEF JobsInv
  <2>2. JobsTypeOK'
    BY <1>2, <2>1, RequestsAreRequested DEF JobsInv, JobsTypeOK
  <2>3. /\ \A old \in body' : old.version <= version'
        /\ \A old, new \in body' : old = new
    BY DEF JobsInv
  <2>4. \A r \in requests' : r.at # "read" /\ r.version <= version'
    BY <2>1, RequestsAreRequested DEF JobsInv, JobsTypeOK
  <2> QED
    BY <1>2, <2>1, <2>2, <2>3, <2>4 DEF JobsInv
<1> QED
  BY <1>1, <1>2 DEF LoadJobs

\* The server reads the table: the answer is at least as new as the list shown.
LEMMA ReadKeepsInv ==
  ASSUME JobsInv, NEW r \in requests, Read(r)
  PROVE  JobsInv'
<1> DEFINE answer == [r EXCEPT !.at = "read", !.version = version]
<1>1. r \in Requested /\ version \in Nat
  BY DEF JobsInv, JobsTypeOK
<1>2. answer \in Requested /\ answer.version = version
  BY <1>1 DEF Requested
<1>3. requests' = {answer} /\ UNCHANGED <<version, query, loading, body>>
  BY DEF Read, JobsInv
<1>4. loading
  BY DEF JobsInv
<1> HIDE DEF answer
<1>5. JobsTypeOK'
  BY <1>2, <1>3 DEF JobsInv, JobsTypeOK
<1>6. version <= version
  BY <1>1
<1> QED
  BY <1>2, <1>3, <1>4, <1>5, <1>6 DEF JobsInv

LEMMA RenderKeepsInv ==
  ASSUME JobsInv, NEW r \in requests, Render(r)
  PROVE  JobsInv' /\ \A old \in body, new \in body' : new.version >= old.version
<1> DEFINE list == [query |-> r.query, version |-> r.version]
<1>1. r \in Requested /\ version \in Nat /\ r.at = "read"
  BY DEF JobsInv, JobsTypeOK, Render
<1>2. list \in [query : Queries, version : Nat] /\ list.version = r.version
  BY <1>1 DEF Requested
<1>3. requests' = {} /\ body' = {list} /\ loading' = FALSE /\ UNCHANGED <<version, query>>
  BY DEF Render, JobsInv
<1> HIDE DEF list
<1>4. JobsTypeOK'
  BY <1>2, <1>3 DEF JobsInv, JobsTypeOK
<1>5. r.version <= version /\ \A old \in body : old.version <= r.version
  BY <1>1 DEF JobsInv
<1>6. JobsInv'
  BY <1>2, <1>3, <1>4, <1>5 DEF JobsInv
<1>7. \A old \in body : old.version \in Nat
  BY DEF JobsInv, JobsTypeOK
<1>8. r.version \in Nat
  BY <1>1 DEF Requested
<1>9. \A old \in body, new \in body' : new.version >= old.version
  <2> SUFFICES ASSUME NEW old \in body, NEW new \in body'
               PROVE  new.version >= old.version
    OBVIOUS
  <2>1. new.version = r.version
    BY <1>2, <1>3
  <2> QED
    BY <2>1, <1>5, <1>7, <1>8
<1> QED
  BY <1>6, <1>9

LEMMA FailKeepsInv ==
  ASSUME JobsInv, NEW r \in requests, Fail(r)
  PROVE  JobsInv'
BY DEF JobsInv, JobsTypeOK, Fail

LEMMA ChangeKeepsInv ==
  ASSUME JobsInv, Change
  PROVE  JobsInv'
<1>1. JobsTypeOK'
  BY DEF JobsInv, JobsTypeOK, Change
<1>2. \A r \in requests : r.version \in Nat
  BY DEF JobsInv, JobsTypeOK, Requested
<1>3. \A old \in body : old.version \in Nat
  BY DEF JobsInv, JobsTypeOK
<1>4. version \in Nat /\ version' = version + 1
  BY DEF JobsInv, JobsTypeOK, Change
<1> QED
  BY <1>1, <1>2, <1>3, <1>4 DEF JobsInv, Change

\* Steps that render nothing replace no list.
LEMMA SameOrNoListIsNewer ==
  ASSUME JobsInv, body' = body \/ body' = {}
  PROVE  \A old \in body, new \in body' : new.version >= old.version
<1>1. \A old \in body : old.version \in Nat
  BY DEF JobsInv, JobsTypeOK
<1>2. \A old, new \in body : new.version >= old.version
  BY <1>1 DEF JobsInv
<1> QED
  BY <1>2

\* A toggled sort is again one.
LEMMA ToggledIsAQuery ==
  ASSUME query \in Queries, NEW field \in Fields, ToggleJobSort(field)
  PROVE  query' \in Queries
<1> DEFINE order == IF query.sort.field = field /\ query.sort.order = "desc"
                    THEN "asc" ELSE "desc"
<1>1. query' = [query EXCEPT !.sort = [field |-> field, order |-> order]]
  BY DEF ToggleJobSort
<1>2. order \in {"desc", "asc"}
  OBVIOUS
<1> HIDE DEF order
<1> QED
  BY <1>1, <1>2 DEF Queries, Sorts

\* Every step of the page keeps the invariant, and no list goes back in time.
LEMMA JobsStep ==
  ASSUME JobsInv, JNext
  PROVE  JobsInv' /\ \A old \in body, new \in body' : new.version >= old.version
<1>0. query \in Queries /\ Unfiltered \in Queries
  BY UnfilteredIsAQuery DEF JobsInv, JobsTypeOK
<1>1. ASSUME UNCHANGED body
      PROVE  \A old \in body, new \in body' : new.version >= old.version
  BY <1>1, SameOrNoListIsNewer
<1>2. CASE Poll
  <2>1. JobsInv'
    BY <1>0, <1>2, LoadJobsKeepsInv DEF Poll
  <2> QED
    BY <1>1, <1>2, <2>1 DEF Poll
<1>3. ASSUME NEW f \in Filters, ApplyJobFilters(f)
      PROVE  JobsInv' /\ UNCHANGED body
  <2>1. query' \in Queries
    BY <1>0, <1>3 DEF ApplyJobFilters, Queries
  <2> QED
    BY <1>3, <2>1, LoadJobsKeepsInv DEF ApplyJobFilters
<1>4. ASSUME NEW field \in Fields, ToggleJobSort(field)
      PROVE  JobsInv' /\ UNCHANGED body
  <2>1. query' \in Queries
    BY <1>0, <1>4, ToggledIsAQuery
  <2> QED
    BY <1>4, <2>1, LoadJobsKeepsInv DEF ToggleJobSort
<1>5. CASE ClearJobFilters
  <2>1. JobsInv'
    BY <1>0, <1>5, LoadJobsKeepsInv DEF ClearJobFilters
  <2> QED
    BY <1>1, <1>5, <2>1 DEF ClearJobFilters
<1>6. ASSUME NEW r \in requests, Read(r)
      PROVE  JobsInv' /\ UNCHANGED body
  BY <1>6, ReadKeepsInv DEF Read
<1>7. ASSUME NEW r \in requests, Fail(r)
      PROVE  JobsInv' /\ UNCHANGED body
  BY <1>7, FailKeepsInv DEF Fail
<1> QED
  BY <1>1, <1>2, <1>3, <1>4, <1>5, <1>6, <1>7, RenderKeepsInv DEF JNext, Settle

-----------------------------------------------------------------------------
\* The submit page.

\* The table is that of the inspected source, if one is, and so are the selections.
SubmitInv ==
  /\ source \in Inputs \cup {None}
  /\ revision \in Revisions
  /\ inspected # None => columns = inspected
  /\ SelectionsMatchSource

LEMMA SubmitStep ==
  ASSUME SubmitInv, SNext
  PROVE  SubmitInv'
<1> USE DEF SubmitInv, SelectionsMatchSource
<1>1. ASSUME NEW s \in Inputs, TypeSource(s)
      PROVE  SubmitInv'
  <2>1. source' \in Inputs /\ revision' \in Revisions
    BY <1>1, InputsHaveRevisions DEF TypeSource
  <2> QED
    BY <1>1, <2>1 DEF TypeSource, UpdateSourceInspection
<1>2. ASSUME NEW r \in Revisions, TypeRevision(r)
      PROVE  SubmitInv'
  BY <1>2 DEF TypeRevision, UpdateSourceInspection
<1>3. CASE InspectSchema
  BY <1>3 DEF InspectSchema
<1>4. CASE InspectionAnswers
  BY <1>4 DEF InspectionAnswers, Inspected
<1>5. CASE InspectionFails
  BY <1>5 DEF InspectionFails
<1>6. CASE SubmitJob
  <2>1. ComposeSourceUri(source, revision) # None
    BY <1>6, NoneIsNoSource DEF SubmitJob
  <2>2. columns = ComposeSourceUri(source, revision)
    BY <1>6, <2>1 DEF SubmitJob
  <2> QED
    BY <1>6, <2>2 DEF SubmitJob
<1>7. CASE SubmissionFails
  BY <1>7 DEF SubmissionFails
<1> QED
  BY <1>1, <1>2, <1>3, <1>4, <1>5, <1>6, <1>7 DEF SNext

-----------------------------------------------------------------------------
\* Both pages.

PagesInv == JobsInv /\ SubmitInv

LEMMA PagesInitially == PagesInit => PagesInv
<1> SUFFICES ASSUME PagesInit PROVE PagesInv
  OBVIOUS
<1>1. JobsInv
  BY UnfilteredIsAQuery DEF PagesInit, JInit, JobsInv, JobsTypeOK
<1>2. SubmitInv
  BY InputsHaveRevisions DEF PagesInit, SInit, SubmitInv, SelectionsMatchSource
<1> QED
  BY <1>1, <1>2 DEF PagesInv

LEMMA ResetKeepsInv == Reset => SubmitInv'
BY InputsHaveRevisions DEF Reset, SubmitInv, SelectionsMatchSource

LEMMA OpenWithKeepsInv ==
  ASSUME JobsInv, NEW q \in Queries, OpenWith(q)
  PROVE  JobsInv' /\ body' = {}
<1>1. requests' = {Request(q)} /\ body' = {} /\ query' = q /\ loading' = TRUE
      /\ version' = version
  BY DEF OpenWith
<1>2. version \in Nat
  BY DEF JobsInv, JobsTypeOK
<1>3. JobsTypeOK'
  BY <1>1, <1>2, RequestsAreRequested DEF JobsTypeOK
<1>4. \A r \in requests' : r.version <= version'
  BY <1>1, <1>2, RequestsAreRequested
<1> QED
  BY <1>1, <1>3, <1>4 DEF JobsInv

LEMMA CloseKeepsInv ==
  ASSUME JobsInv, Close
  PROVE  JobsInv' /\ body' = {}
BY UnfilteredIsAQuery DEF Close, JobsInv, JobsTypeOK

LEMMA PagesStep ==
  ASSUME PagesInv, [PagesNext]_pages
  PROVE  PagesInv' /\ \A old \in body, new \in body' : new.version >= old.version
<1>0. JobsInv /\ SubmitInv
  BY DEF PagesInv
<1>1. ASSUME UNCHANGED svars
      PROVE  SubmitInv'
  BY <1>0, <1>1 DEF svars, SubmitInv, SelectionsMatchSource
<1>2. ASSUME UNCHANGED jvars
      PROVE  JobsInv' /\ body' = body
  BY <1>0, <1>2 DEF jvars, JobsInv, JobsTypeOK
<1>3. CASE OnJobs(JNext)
  BY <1>0, <1>1, <1>3, JobsStep DEF OnJobs, PagesInv
<1>4. CASE OnSubmit(SNext)
  BY <1>0, <1>2, <1>4, SubmitStep, SameOrNoListIsNewer DEF OnSubmit, PagesInv
<1>5. ASSUME NEW q \in Queries, OpenJobs(q)
      PROVE  PagesInv' /\ body' = {}
  BY <1>0, <1>5, OpenWithKeepsInv, ResetKeepsInv DEF OpenJobs, PagesInv
<1>6. CASE OpenSubmit
  BY <1>0, <1>1, <1>6, CloseKeepsInv, SameOrNoListIsNewer DEF OpenSubmit, PagesInv
<1>7. CASE SubmissionSucceeds
  BY <1>0, <1>5, <1>7, UnfilteredIsAQuery, SameOrNoListIsNewer DEF SubmissionSucceeds
<1>8. CASE Change /\ UNCHANGED <<page, svars>>
  <2>1. JobsInv' /\ body' = body
    BY <1>0, <1>8, ChangeKeepsInv DEF Change
  <2> QED
    BY <1>0, <1>1, <1>8, <2>1, SameOrNoListIsNewer DEF PagesInv
<1>9. CASE UNCHANGED pages
  BY <1>0, <1>1, <1>2, <1>9, SameOrNoListIsNewer DEF pages, PagesInv
<1> QED
  BY <1>0, <1>3, <1>4, <1>5, <1>6, <1>7, <1>8, <1>9, SameOrNoListIsNewer DEF PagesNext

LEMMA PagesAlways == PagesSpec => []PagesInv
<1>1. PagesInit => PagesInv
  BY PagesInitially
<1>2. PagesInv /\ [PagesNext]_pages => PagesInv'
  BY PagesStep
<1> QED
  BY <1>1, <1>2, PTL DEF PagesSpec

\* However sources and revisions are typed while inspections are under way, what
\* submitJob sends was selected in the schema of the source that it sends.
THEOREM SelectionsMatch == PagesSpec => []SelectionsMatchSource
<1>1. PagesInv => SelectionsMatchSource
  BY DEF PagesInv, SubmitInv
<1> QED
  BY <1>1, PagesAlways, PTL

\* However polls, clicks, answers and failures interleave, renderJobs never puts a
\* list in the place of one that was read later.
THEOREM ListsMoveForward == PagesSpec => NeverShowsOlder
<1>1. PagesInv /\ [PagesNext]_pages =>
        [\A old \in body, new \in body' : new.version >= old.version]_jvars
  BY PagesStep
<1> QED
  BY <1>1, PagesAlways, PTL DEF PagesSpec, NeverShowsOlder

\* Submissions and their handlers do to the table what JobStore lets callers do, so
\* all it promises holds of jobs that come over HTTP.
THEOREM HandlersUseTheStore == WSpec => Spec
<1>1. WInit => Init
  BY DEF WInit
<1>2. ASSUME [WNext]_wvars
      PROVE  [Next]_jobs
  <2>1. CASE UNCHANGED wvars
    BY <2>1 DEF wvars
  <2>2. ASSUME NEW c \in Clients, Send(c) \/ GiveUp(c)
        PROVE  UNCHANGED jobs
    BY <2>2 DEF Send, GiveUp
  <2>3. ASSUME NEW h \in handlers, Insert(h) \/ InsertFails(h)
        PROVE  Create \/ UNCHANGED jobs
    BY <2>3 DEF Insert, InsertFails, Stored, Create
  <2>4. ASSUME NEW h \in handlers,
               \/ Refuse(h) \/ Conflict(h) \/ ReadBack(h) \/ ReadFails(h) \/ Drop(h)
        PROVE  UNCHANGED jobs
    BY <2>4 DEF Refuse, Conflict, ReadBack, ReadFails, Drop
  <2>5. CASE Work
    BY <2>5 DEF Work, Next
  <2> QED  BY <1>2, <2>1, <2>2, <2>3, <2>4, <2>5 DEF WNext, Next
<1> QED  BY <1>1, <1>2, PTL DEF WSpec, Spec

\* Listing jobs.

Rows == [creator : Creators, status : {"queuing", "running", "succeeded", "failed"},
         created : Int, updated : Int]

QTyped ==
  /\ DOMAIN table \subseteq DestinationUris /\ IsFiniteSet(DOMAIN table)
  /\ table \in [DOMAIN table -> Rows]

LEMMA QTypedIsInductive == QSpec => []QTyped
<1>1. QInit => QTyped
  BY FS_EmptySet DEF QInit, QTyped
<1>2. QTyped /\ [QNext]_table => QTyped'
  <2> SUFFICES ASSUME QTyped, [QNext]_table
               PROVE  QTyped'
    OBVIOUS
  <2>1. ASSUME NEW d \in DestinationUris, NEW now \in Readings, NEW c \in Creators,
               AddJob(d, c, now)
        PROVE  QTyped'
    <3> DEFINE row == [creator |-> c, status |-> "queuing", created |-> now, updated |-> now]
    <3>1. row \in Rows
      BY ReadingsAreIntegers DEF Rows
    <3>2. table' = [e \in DOMAIN table \cup {d} |-> IF e = d THEN row ELSE table[e]]
      BY <2>1 DEF AddJob
    <3>3. IsFiniteSet(DOMAIN table \cup {d})
      BY FS_AddElement DEF QTyped
    <3> HIDE DEF row
    <3>4. DOMAIN table' = DOMAIN table \cup {d}
      BY <3>2
    <3>5. \A e \in DOMAIN table' : table'[e] \in Rows
      BY <3>1, <3>2 DEF QTyped
    <3>6. table' \in [DOMAIN table' -> Rows]
      BY <3>2, <3>4, <3>5
    <3> QED  BY <3>3, <3>4, <3>6 DEF QTyped
  <2>2. ASSUME NEW d \in DestinationUris, NEW now \in Readings, NEW status \in Statuses,
               Touch(d, status, now)
        PROVE  QTyped'
    <3> DEFINE row == [table[d] EXCEPT !.status = status, !.updated = now]
    <3>1. d \in DOMAIN table /\ table' = [table EXCEPT ![d] = row]
      BY <2>2 DEF Touch
    <3>2. row \in Rows
      <4>1. table[d] \in Rows /\ now \in Int
        BY <3>1, ReadingsAreIntegers DEF QTyped
      <4>2. status \in {"queuing", "running", "succeeded", "failed"}
        BY StatusesOfJobs
      <4> QED  BY <4>1, <4>2 DEF Rows
    <3> HIDE DEF row
    <3> QED  BY <3>1, <3>2 DEF QTyped
  <2> QED  BY <2>1, <2>2 DEF QNext, QTyped
<1> QED  BY <1>1, <1>2, PTL DEF QSpec

StoreQueries ==
  [creator : Creators \cup {Absent}, failed_only : BOOLEAN, ongoing_only : BOOLEAN,
   from : Bounds \cup {Absent}, to : Bounds \cup {Absent},
   order_by : {"creation", "update"}, descending : BOOLEAN, limit : Nat]

\* What the web API makes of a request.
LEMMA QueriesOfRequests ==
  ASSUME NEW r \in Requests, NEW q, q = ToQuery(r)
  PROVE  /\ q \in StoreQueries
         /\ q.creator = r.creator /\ q.failed_only = r.failed_only
         /\ q.ongoing_only = r.ongoing_only /\ q.from = r.from /\ q.to = r.to
         /\ q.order_by = r.order_by /\ q.descending = r.descending
         /\ q.limit <= ListLimit /\ (r.limit # Absent => q.limit <= r.limit)
         /\ q.limit \in {ListLimit, r.limit}
<1> DEFINE limit == IF r.limit = Absent \/ r.limit > ListLimit THEN ListLimit ELSE r.limit
<1>1. q = [r EXCEPT !.limit = limit]
  BY DEF ToQuery
<1>2. r.limit \in Nat \cup {Absent} /\ ListLimit \in Nat
  BY LimitsAreCounts DEF Requests
<1>3. /\ limit \in Nat /\ limit <= ListLimit /\ (r.limit # Absent => limit <= r.limit)
      /\ limit \in {ListLimit, r.limit}
  BY <1>2
<1> HIDE DEF limit
<1>4. q \in StoreQueries /\ q.limit = limit
  BY <1>1, <1>3 DEF Requests, StoreQueries
<1>5. /\ q.creator = r.creator /\ q.failed_only = r.failed_only
      /\ q.ongoing_only = r.ongoing_only /\ q.from = r.from /\ q.to = r.to
      /\ q.order_by = r.order_by /\ q.descending = r.descending
  BY <1>1 DEF Requests
<1> QED  BY <1>3, <1>4, <1>5

\* The WHERE clause says what the parameters mean.
LEMMA WhereIsWanted ==
  ASSUME QTyped, NEW r \in Requests
  PROVE  {d \in DOMAIN table : Matches(table[d], ToQuery(r))} = Wanted(r)
<1> DEFINE q == ToQuery(r)
<1>1. /\ q.creator = r.creator /\ q.failed_only = r.failed_only
      /\ q.ongoing_only = r.ongoing_only /\ q.from = r.from /\ q.to = r.to
  BY QueriesOfRequests
<1>2. r.failed_only \in BOOLEAN /\ r.ongoing_only \in BOOLEAN
  BY DEF Requests
<1>3. r.from \in Bounds \cup {Absent} /\ r.to \in Bounds \cup {Absent}
  BY DEF Requests
<1> HIDE DEF q
<1>4. ASSUME NEW d \in DOMAIN table
      PROVE  Matches(table[d], q) <=> d \in Wanted(r)
  <2>1. table[d].created \in Int /\ Bounds \subseteq Int
    BY ReadingsAreIntegers DEF QTyped, Rows
  <2>2. (q.creator # Absent => table[d].creator = q.creator)
          <=> r.creator \in {Absent, table[d].creator}
    BY <1>1
  <2>3. /\ q.failed_only => table[d].status = "failed"
        /\ ~q.failed_only /\ q.ongoing_only => table[d].status \in {"queuing", "running"}
        <=>
        (r.failed_only \/ r.ongoing_only =>
           table[d].status \in IF r.failed_only THEN {"failed"} ELSE {"queuing", "running"})
    BY <1>1, <1>2
  <2>4. (q.from # Absent => table[d].created >= q.from)
          <=> \A t \in {r.from} \ {Absent} : t <= table[d].created
    BY <1>1, <1>3, <2>1
  <2>5. (q.to # Absent => table[d].created <= q.to)
          <=> \A t \in {r.to} \ {Absent} : table[d].created <= t
    BY <1>1, <1>3, <2>1
  <2> QED  BY <2>2, <2>3, <2>4, <2>5 DEF Matches, Wanted
<1> QED  BY <1>4 DEF q, Wanted

OrderOf(q) == {pair \in DestinationUris \X DestinationUris : Precedes(pair[1], pair[2], q)}

\* ORDER BY is a total order of the rows: no two have one destination.
LEMMA RowsAreOrdered ==
  ASSUME QTyped, NEW q \in StoreQueries, NEW S \in SUBSET DOMAIN table
  PROVE  /\ Orders(OrderOf(q), S) /\ IsFiniteSet(S)
         /\ \A d, e \in S : <<d, e>> \in OrderOf(q) <=> Precedes(d, e, q)
<1>1. S \subseteq DestinationUris /\ DestinationUris \subseteq Int /\ IsFiniteSet(S)
  BY FS_Subset, UrisOrdered DEF QTyped
<1>2. q.descending \in BOOLEAN /\ \A d \in S : Key(d, q) \in Int
  BY DEF QTyped, Rows, Key, StoreQueries
<1>3. \A d, e \in S : <<d, e>> \in OrderOf(q) <=> Precedes(d, e, q)
  BY <1>1 DEF OrderOf
<1> DEFINE key(d) == Key(d, q)
<1>4. ASSUME NEW d \in S, NEW e \in S
      PROVE  /\ d \in Int /\ e \in Int /\ key(d) \in Int /\ key(e) \in Int
             /\ Precedes(d, e, q) <=>
                  IF q.descending THEN key(d) > key(e) \/ (key(d) = key(e) /\ d > e)
                                  ELSE key(d) < key(e) \/ (key(d) = key(e) /\ d < e)
  BY <1>1, <1>2 DEF Precedes
<1> HIDE DEF key
<1>5. \A d \in S : ~Precedes(d, d, q)
  BY <1>2, <1>4
<1>6. \A d, e, f \in S : Precedes(d, e, q) /\ Precedes(e, f, q) => Precedes(d, f, q)
  BY <1>2, <1>4
<1>7. \A d, e \in S : d # e => Precedes(d, e, q) \/ Precedes(e, d, q)
  BY <1>2, <1>4
<1> QED  BY <1>1, <1>3, <1>5, <1>6, <1>7 DEF Orders

\* A query whose limit is not 0 is answered with the first of its rows, in order.
LEMMA AnswersAreFirst ==
  ASSUME QTyped, NEW q \in StoreQueries, q.limit # 0,
         NEW S, S = {d \in DOMAIN table : Matches(table[d], q)}
  PROVE  \E s \in SetToSeqs(S) :
           /\ GoesUp(s, OrderOf(q))
           /\ \A i, j \in DOMAIN s : i < j => Precedes(s[i], s[j], q)
           /\ \E k \in Nat :
                /\ k <= q.limit /\ k <= Cardinality(S) /\ k \in {q.limit, Cardinality(S)}
                /\ QueryJobs(q) = [i \in 1..k |-> s[i]]
<1> DEFINE GoesOn(s) == \A i, j \in DOMAIN s : i < j => Precedes(s[i], s[j], q)
           n == Cardinality(S)
<1>1. Orders(OrderOf(q), S) /\ IsFiniteSet(S) /\ \A d, e \in S : <<d, e>> \in OrderOf(q) <=> Precedes(d, e, q)
  BY RowsAreOrdered
<1>2. \E s \in SetToSeqs(S) : GoesUp(s, OrderOf(q))
  BY <1>1, CanBeListed
<1>3. ASSUME NEW s \in SetToSeqs(S)
      PROVE  GoesUp(s, OrderOf(q)) <=> GoesOn(s)
  <2>1. \A i \in DOMAIN s : s[i] \in S
    BY <1>1, ListsAll
  <2> QED  BY <1>1, <2>1 DEF GoesUp
<1> DEFINE s == CHOOSE list \in SetToSeqs(S) : GoesOn(list)
<1>4. s \in SetToSeqs(S) /\ GoesOn(s)
  <2>1. \E list \in SetToSeqs(S) : GoesOn(list)
    BY <1>2, <1>3
  <2> HIDE DEF GoesOn
  <2> QED  BY <2>1
<1>5. QueryJobs(q) = SubSeq(s, 1, Min({q.limit, Len(s)}))
  BY DEF QueryJobs, InOrder
<1> HIDE DEF s
<1>6. s \in [1..n -> S] /\ n \in Nat
  BY <1>1, <1>4, ListsAll
<1> DEFINE k == Min({q.limit, Len(s)})
<1>7. Len(s) = n
  BY <1>6
<1>8. k \in Nat /\ k <= q.limit /\ k <= n /\ k \in {q.limit, n}
  <2>1. q.limit \in Nat
    BY DEF StoreQueries
  <2>2. \E x \in {q.limit, n} : \A y \in {q.limit, n} : x <= y
    BY <1>6, <2>1
  <2> HIDE DEF n
  <2>3. k \in {q.limit, n} /\ \A y \in {q.limit, n} : k <= y
    BY <1>7, <2>2 DEF Min
  <2> HIDE DEF k
  <2> QED  BY <1>6, <2>1, <2>3
<1> HIDE DEF k
<1>9. QueryJobs(q) = [i \in 1..k |-> s[i]]
  <2>1. \A i \in 1..k : s[i] \in S
    BY <1>6, <1>8
  <2>2. QueryJobs(q) = SubSeq(s, 1, k)
    BY <1>5 DEF k
  <2> HIDE DEF n
  <2>3. /\ SubSeq(s, 1, k) \in Seq(S) /\ Len(SubSeq(s, 1, k)) = k
        /\ \A i \in 1..k : SubSeq(s, 1, k)[i] = s[i]
    BY <1>8, <2>1, SubSeqProperties
  <2>4. SubSeq(s, 1, k) = [i \in 1..k |-> SubSeq(s, 1, k)[i]]
    BY <2>3
  <2> QED  BY <2>2, <2>3, <2>4
<1> QED  BY <1>3, <1>4, <1>8, <1>9

\* A list has what was asked for, in order, and is cut only at its limit (ORDER
\* BY and LIMIT of query_jobs, the cap of list_jobs).
THEOREM ListsHideNothingNewer == QSpec => []ListsAreExact
<1>1. ASSUME QTyped, NEW r \in Answered
      PROVE  LET list == QueryJobs(ToQuery(r))
                 at(d) == IF r.order_by = "update" THEN table[d].updated ELSE table[d].created
                 shown == {list[i] : i \in 1..Len(list)}
             IN  /\ Cardinality(shown) = Len(list)
                 /\ Len(list) <= ListLimit /\ (r.limit # Absent => Len(list) <= r.limit)
                 /\ shown \subseteq Wanted(r)
                 /\ \A i \in 1..Len(list) :
                      \A d \in Wanted(r) \ {list[j] : j \in 1..i} :
                        IF r.descending THEN at(d) <= at(list[i]) ELSE at(d) >= at(list[i])
                 /\ Wanted(r) # shown => Len(list) \in {ListLimit, r.limit}
  <2> DEFINE q == ToQuery(r)
             list == QueryJobs(q)
             at(d) == IF r.order_by = "update" THEN table[d].updated ELSE table[d].created
             shown == {list[i] : i \in 1..Len(list)}
             n == Cardinality(Wanted(r))
  <2>1. r \in Requests
    BY DEF Answered
  <2>2. /\ q \in StoreQueries /\ q.descending = r.descending /\ q.order_by = r.order_by
        /\ q.limit <= ListLimit /\ (r.limit # Absent => q.limit <= r.limit)
        /\ q.limit \in {ListLimit, r.limit}
    BY <2>1, QueriesOfRequests
  <2>3. q.limit \in Nat /\ ListLimit \in Nat /\ r.limit \in Nat \cup {Absent}
    BY <2>1, <2>2, LimitsAreCounts DEF StoreQueries, Requests
  <2>4. Wanted(r) \subseteq DOMAIN table /\ IsFiniteSet(Wanted(r)) /\ n \in Nat
    BY <1>1, FS_Subset, FS_CardinalityType DEF Wanted, QTyped
  <2>5. \A d \in Wanted(r) : at(d) \in Int /\ Key(d, q) = at(d)
    <3>1. \A d \in Wanted(r) : table[d].updated \in Int /\ table[d].created \in Int
      BY <1>1, <2>4 DEF QTyped, Rows
    <3> HIDE DEF q
    <3> QED  BY <2>2, <3>1 DEF Key
  <2>6. {d \in DOMAIN table : Matches(table[d], q)} = Wanted(r)
    BY <1>1, <2>1, WhereIsWanted
  <2> HIDE DEF q
  <2>7. CASE q.limit = 0
    <3>1. list = <<>> /\ Len(list) = 0
      BY <2>7 DEF QueryJobs
    <3> HIDE DEF list
    <3>2. shown = {}
      BY <3>1
    <3>3. Cardinality(shown) = 0
      BY <3>2, FS_EmptySet
    <3>4. Len(list) <= ListLimit /\ (r.limit # Absent => Len(list) <= r.limit)
      BY <2>2, <2>3, <2>7, <3>1
    <3>5. Len(list) \in {ListLimit, r.limit}
      BY <2>2, <2>7, <3>1
    <3>6. 1..Len(list) = {}
      BY <3>1
    <3> HIDE DEF shown, at
    <3> QED  BY <3>1, <3>2, <3>3, <3>4, <3>5, <3>6 DEF q, list, shown, at
  <2>8. CASE q.limit # 0
    <3>1. PICK s \in SetToSeqs(Wanted(r)), k \in Nat :
            /\ \A i, j \in DOMAIN s : i < j => Precedes(s[i], s[j], q)
            /\ k <= q.limit /\ k <= n /\ k \in {q.limit, n}
            /\ list = [i \in 1..k |-> s[i]]
      BY <1>1, <2>2, <2>6, <2>8, AnswersAreFirst
    <3>2. /\ s \in [1..n -> Wanted(r)]
          /\ \A i, j \in 1..n : s[i] = s[j] => i = j
          /\ \A d \in Wanted(r) : \E i \in 1..n : s[i] = d
      BY <2>4, ListsAll
    <3> HIDE DEF list, n
    <3>3. Len(list) = k /\ 1..k \subseteq 1..n /\ \A i \in 1..k : list[i] = s[i]
      BY <2>4, <3>1
    <3>4. shown = {s[i] : i \in 1..k}
      BY <3>3
    <3>5. shown \subseteq Wanted(r)
      BY <3>2, <3>3, <3>4
    <3>6. Cardinality(shown) = k
      <4>1. list \in Bijection(1..k, shown)
        <5>1. list \in [1..k -> shown]
          BY <3>1, <3>3
        <5>2. \A i, j \in 1..k : list[i] = list[j] => i = j
          BY <3>2, <3>3
        <5>3. \A d \in shown : \E i \in 1..k : list[i] = d
          BY <3>3
        <5> QED  BY <5>1, <5>2, <5>3 DEF Bijection, Injection, Surjection, IsInjective
      <4>2. IsFiniteSet(1..k) /\ Cardinality(1..k) = k
        BY Interval
      <4> HIDE DEF shown
      <4>3. ExistsBijection(1..k, shown)
        BY <4>1 DEF ExistsBijection
      <4> QED  BY <4>2, <4>3, FS_Bijection
    <3>7. ASSUME NEW i \in 1..k, NEW d \in Wanted(r) \ {list[j] : j \in 1..i}
          PROVE  IF r.descending THEN at(d) <= at(list[i]) ELSE at(d) >= at(list[i])
      <4>1. PICK m \in 1..n : s[m] = d
        BY <3>2
      <4>2. i < m
        <5>1. ASSUME m <= i
              PROVE  FALSE
          <6>1. m \in 1..i /\ m \in 1..k
            BY <2>4, <3>1, <5>1
          <6>2. list[m] = d
            BY <3>3, <4>1, <6>1
          <6> QED  BY <6>1, <6>2
        <5> QED  BY <2>4, <3>1, <5>1
      <4>3. Precedes(list[i], d, q) /\ list[i] \in Wanted(r)
        BY <3>1, <3>2, <3>3, <4>1, <4>2
      <4>4. Key(d, q) = at(d) /\ Key(list[i], q) = at(list[i])
            /\ at(d) \in Int /\ at(list[i]) \in Int
        BY <2>5, <4>3
      <4> HIDE DEF at
      <4> QED  BY <2>2, <4>3, <4>4 DEF Precedes
    <3>8. k <= ListLimit /\ (r.limit # Absent => k <= r.limit)
      BY <2>2, <2>3, <3>1
    <3>9. Wanted(r) # shown => k \in {ListLimit, r.limit}
      <4>1. k = n => Wanted(r) \subseteq shown
        BY <3>2, <3>4
      <4> HIDE DEF shown
      <4> QED  BY <2>2, <3>1, <3>5, <4>1
    <3> HIDE DEF shown, at
    <3>10. /\ Cardinality(shown) = Len(list)
           /\ Len(list) <= ListLimit /\ (r.limit # Absent => Len(list) <= r.limit)
           /\ shown \subseteq Wanted(r)
           /\ \A i \in 1..Len(list) :
                \A d \in Wanted(r) \ {list[j] : j \in 1..i} :
                  IF r.descending THEN at(d) <= at(list[i]) ELSE at(d) >= at(list[i])
           /\ Wanted(r) # shown => Len(list) \in {ListLimit, r.limit}
      BY <3>3, <3>5, <3>6, <3>7, <3>8, <3>9
    <3> QED  BY <3>10 DEF q, list, shown, at
  <2> QED  BY <2>7, <2>8
<1>2. QTyped => ListsAreExact
  BY <1>1 DEF ListsAreExact
<1> QED  BY <1>2, QTypedIsInductive, PTL

\* The two orders of a list are each other's mirror image (the tie-breaker of
\* ORDER BY goes the way of the list).
THEOREM ReversedListsAgree == QSpec => []DirectionsAgree
<1>1. ASSUME QTyped, NEW r \in Answered,
             Cardinality(Wanted(r)) <= ToQuery(r).limit
      PROVE  QueryJobs([ToQuery(r) EXCEPT !.descending = ~@]) = Reverse(QueryJobs(ToQuery(r)))
  <2> DEFINE q == ToQuery(r)
             list == QueryJobs(q)
             back == [q EXCEPT !.descending = ~@]
             n == Cardinality(Wanted(r))
  <2>1. r \in Requests
    BY DEF Answered
  <2>2. q \in StoreQueries
    BY <2>1, QueriesOfRequests
  <2>3. {d \in DOMAIN table : Matches(table[d], q)} = Wanted(r)
    BY <1>1, <2>1, WhereIsWanted
  <2>4. Wanted(r) \subseteq DOMAIN table /\ IsFiniteSet(Wanted(r)) /\ n \in Nat
    BY <1>1, FS_Subset, FS_CardinalityType DEF Wanted, QTyped
  <2>5. n <= q.limit
    BY <1>1
  <2> HIDE DEF q
  <2>6. /\ back \in StoreQueries /\ back.descending = ~q.descending
        /\ back.creator = q.creator /\ back.failed_only = q.failed_only
        /\ back.ongoing_only = q.ongoing_only /\ back.from = q.from /\ back.to = q.to
        /\ back.order_by = q.order_by /\ back.limit = q.limit
    BY <2>2 DEF StoreQueries
  <2>7. q.descending \in BOOLEAN
    BY <2>2 DEF StoreQueries
  <2> HIDE DEF back
  <2>8. {d \in DOMAIN table : Matches(table[d], back)} = Wanted(r)
    BY <2>3, <2>6 DEF Matches
  <2>9. \A d, e \in DOMAIN table : Precedes(d, e, back) <=> Precedes(e, d, q)
    <3>1. \A d \in DOMAIN table : d \in Int /\ Key(d, q) \in Int /\ Key(d, back) = Key(d, q)
      BY <1>1, <2>6, UrisOrdered DEF QTyped, Rows, Key
    <3> QED  BY <2>6, <2>7, <3>1 DEF Precedes
  <2>10. QueryJobs(back) = Reverse(list)
    <3>1. CASE q.limit = 0
      <4>1. list = <<>> /\ QueryJobs(back) = <<>>
        BY <2>6, <3>1 DEF QueryJobs
      <4> HIDE DEF list
      <4> QED  BY <4>1 DEF Reverse
    <3>2. CASE q.limit # 0
      <4>1. PICK s \in SetToSeqs(Wanted(r)), k \in Nat :
              /\ GoesUp(s, OrderOf(q)) /\ k \in {q.limit, n} /\ k <= n
              /\ list = [i \in 1..k |-> s[i]]
        BY <1>1, <2>2, <2>3, <3>2, AnswersAreFirst
      <4>2. PICK t \in SetToSeqs(Wanted(r)), l \in Nat :
              /\ GoesUp(t, OrderOf(back)) /\ l \in {q.limit, n} /\ l <= n
              /\ QueryJobs(back) = [i \in 1..l |-> t[i]]
        BY <1>1, <2>6, <2>8, <3>2, AnswersAreFirst
      <4>3. s \in [1..n -> Wanted(r)] /\ t \in [1..n -> Wanted(r)]
            /\ \A i, j \in 1..n : s[i] = s[j] => i = j
        BY <2>4, ListsAll
      <4> HIDE DEF list, n
      <4>4. list = s /\ Len(list) = n
        <5>1. k = n
          BY <2>2, <2>4, <2>5, <4>1 DEF StoreQueries
        <5> QED  BY <2>4, <4>1, <4>3, <5>1
      <4>5. QueryJobs(back) = t
        <5>1. l = n
          BY <2>2, <2>4, <2>5, <4>2 DEF StoreQueries
        <5> QED  BY <4>2, <4>3, <5>1
      <4> DEFINE b == [i \in 1..n |-> s[n - i + 1]]
      <4>6. b = Reverse(list)
        BY <4>4 DEF Reverse
      <4>7. /\ \A i \in 1..n : n - i + 1 \in 1..n
            /\ \A i, j \in 1..n : n - i + 1 = n - j + 1 => i = j
            /\ \A i, j \in 1..n : i < j => n - j + 1 < n - i + 1
        BY <2>4
      <4>8. \A i \in 1..n : b[i] = s[n - i + 1] /\ b[i] \in Wanted(r)
        BY <4>3, <4>7
      <4>9. b \in [1..n -> Wanted(r)] /\ \A i, j \in 1..n : b[i] = b[j] => i = j
        BY <4>3, <4>7, <4>8
      <4> HIDE DEF b
      <4>10. b \in SetToSeqs(Wanted(r))
        BY <4>9 DEF SetToSeqs, n
      <4>11. \A d, e \in Wanted(r) : <<d, e>> \in OrderOf(q) => <<e, d>> \in OrderOf(back)
        <5>1. /\ \A d, e \in Wanted(r) : <<d, e>> \in OrderOf(q) <=> Precedes(d, e, q)
              /\ \A d, e \in Wanted(r) : <<d, e>> \in OrderOf(back) <=> Precedes(d, e, back)
          BY <1>1, <2>2, <2>4, <2>6, RowsAreOrdered
        <5> QED  BY <2>4, <2>9, <5>1
      <4>12. GoesUp(b, OrderOf(back))
        <5> SUFFICES ASSUME NEW i \in 1..n, NEW j \in 1..n, i < j
                     PROVE  <<b[i], b[j]>> \in OrderOf(back)
          BY <4>9 DEF GoesUp
        <5>1. <<s[n - j + 1], s[n - i + 1]>> \in OrderOf(q)
          BY <4>1, <4>3, <4>7 DEF GoesUp
        <5> QED  BY <4>8, <4>11, <5>1
      <4>13. Orders(OrderOf(back), Wanted(r))
        BY <1>1, <2>4, <2>6, RowsAreOrdered
      <4>14. b = t
        BY <2>4, <4>2, <4>10, <4>12, <4>13, OnlyOneListing
      <4> QED  BY <4>5, <4>6, <4>14
    <3> QED  BY <3>1, <3>2
  <2> QED  BY <2>10 DEF back, list, q
<1>2. QTyped => DirectionsAgree
  BY <1>1 DEF DirectionsAgree
<1> QED  BY <1>2, QTypedIsInductive, PTL
=============================================================================
