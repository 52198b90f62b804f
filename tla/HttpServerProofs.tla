----------------------------- MODULE HttpServerProofs -----------------------------
(***************************************************************************)
(* The HTTP server, for any number of sessions, threads, clients and timers *)
(* and any bounds of the pool: a session has one request in hand, no        *)
(* request waits beside an idle session, and the pool stays within its      *)
(* bounds. First what an operation does to one session, then the pool,      *)
(* action by action.                                                       *)
(***************************************************************************)
EXTENDS HttpServer, QueueFilterProofs, FiniteSetTheorems, TLAPS

-----------------------------------------------------------------------------
(* What the session does for its request, the 408s of timeouts left out.    *)
Busy(x) == x.posted + x.reads + (IF x.handling THEN 1 ELSE 0) + x.replies

(* A change of a session that gives its stream nothing more to do, and      *)
(* leaves it idle only if it was, or if it has nothing left to do.          *)
Calm(x, y) ==
    /\ y \in Sess
    /\ y.made = x.made
    /\ Busy(y) <= Busy(x)
    /\ y.idle => x.idle \/ Busy(y) = 0

(* The work of a session is a number.                                       *)
LEMMA BusyNat == ASSUME NEW x \in Sess PROVE Busy(x) \in Nat
  BY DEF Busy, Sess

(* The operations of a session that start no work: none of them adds to     *)
(* what the session is busy with.                                           *)
LEMMA CalmSteps ==
    ASSUME NEW x \in Sess
    PROVE  /\ Calm(x, x)
           /\ Calm(x, updateLastActivity(x)) /\ Busy(updateLastActivity(x)) = Busy(x)
           /\ Calm(x, doClose(x)) /\ ~doClose(x).idle /\ Busy(doClose(x)) = Busy(x)
<1>1. Calm(x, x)
  BY BusyNat DEF Calm
<1>2. updateLastActivity(x) \in Sess
  BY DEF updateLastActivity, Sess
<1>3. /\ updateLastActivity(x).made = x.made /\ updateLastActivity(x).idle = x.idle
      /\ Busy(updateLastActivity(x)) = Busy(x)
  BY DEF updateLastActivity, Sess, Busy
<1>4. doClose(x) \in Sess
  BY DEF doClose, Sess
<1>5. /\ doClose(x).made = x.made /\ doClose(x).idle = FALSE
      /\ Busy(doClose(x)) = Busy(x)
  BY DEF doClose, Sess, Busy
<1> QED BY <1>1, <1>2, <1>3, <1>4, <1>5, BusyNat DEF Calm

(* setIdle: the session keeps its work and is idle as it is told.           *)
LEMMA SetIdleFacts ==
    ASSUME NEW x \in Sess
    PROVE  /\ setIdle(x, TRUE) \in Sess /\ setIdle(x, TRUE).made = x.made
           /\ Busy(setIdle(x, TRUE)) = Busy(x) /\ setIdle(x, TRUE).idle
           /\ setIdle(x, FALSE) \in Sess /\ setIdle(x, FALSE).made = x.made
           /\ Busy(setIdle(x, FALSE)) = Busy(x) /\ ~setIdle(x, FALSE).idle
           /\ setIdle(x, FALSE).posted = x.posted
<1>1. setIdle(x, TRUE) \in Sess /\ setIdle(x, FALSE) \in Sess
  BY DEF setIdle, Sess
<1> QED BY <1>1 DEF setIdle, Sess, Busy

(* reset(): the session keeps its work.                                     *)
LEMMA ResetFacts ==
    ASSUME NEW x \in Sess
    PROVE  /\ reset(x) \in Sess /\ reset(x).made = x.made
           /\ Busy(reset(x)) = Busy(x)
<1> DEFINE y == [x EXCEPT !.processing = FALSE, !.idle = FALSE]
<1>1. y \in Sess
  BY DEF Sess
<1>2. y.made = x.made /\ Busy(y) = Busy(x)
  BY DEF Sess, Busy
<1>3. reset(x) = setIdle(y, TRUE)
  BY DEF reset
<1> HIDE DEF y
<1> QED BY <1>1, <1>2, <1>3, SetIdleFacts

(* run(): one read more, and not idle.                                      *)
LEMMA RunFacts ==
    ASSUME NEW x \in Sess
    PROVE  /\ run(x) \in Sess /\ run(x).made = x.made
           /\ Busy(run(x)) = Busy(x) + 1 /\ ~run(x).idle
<1> DEFINE y == setIdle(updateLastActivity(x), FALSE)
<1>1. y \in Sess /\ y.made = x.made /\ Busy(y) = Busy(x) /\ ~y.idle
  <2> DEFINE z == updateLastActivity(x)
  <2>1. z \in Sess /\ z.made = x.made /\ Busy(z) = Busy(x)
    BY CalmSteps DEF Calm
  <2> HIDE DEF z
  <2>2. /\ setIdle(z, FALSE) \in Sess /\ setIdle(z, FALSE).made = z.made
        /\ Busy(setIdle(z, FALSE)) = Busy(z) /\ ~setIdle(z, FALSE).idle
    BY <2>1, SetIdleFacts
  <2> QED BY <2>1, <2>2 DEF z
<1>2. run(x) = [y EXCEPT !.posted = y.posted + 1]
  BY DEF run
<1> HIDE DEF y
<1>3. ASSUME NEW n \in Nat PROVE [y EXCEPT !.posted = n] \in Sess
  BY <1>1 DEF Sess
<1>4. y.posted + 1 \in Nat
  BY <1>1 DEF Sess
<1>5. run(x) \in Sess
  BY <1>2, <1>3, <1>4
<1>6. Busy(run(x)) = Busy(y) + 1 /\ run(x).made = y.made /\ run(x).idle = y.idle
  BY <1>1, <1>2 DEF Busy, Sess
<1> QED BY <1>1, <1>5, <1>6

(* A session that is created is not idle and has no work yet.               *)
LEMMA CreatedFacts ==
    ASSUME NEW c \in Client \cup {NoClient}
    PROVE  /\ Fresh \in Sess /\ Busy(Fresh) = 0 /\ ~Fresh.idle
           /\ Created(c) \in Sess /\ Busy(Created(c)) = 0
           /\ ~Created(c).idle /\ Created(c).made
<1>1. Fresh \in Sess /\ Created(c) \in Sess
  BY DEF Fresh, Created, Sess
<1>2. Busy(Fresh) = 0 /\ ~Fresh.idle
  BY DEF Fresh, Busy
<1>3. Busy(Created(c)) = 0 /\ ~Created(c).idle /\ Created(c).made
  BY DEF Created, Fresh, Busy
<1> QED BY <1>1, <1>2, <1>3

(* All sessions change calmly.                                              *)
AllCalm ==
    /\ sess' \in [Session -> Sess]
    /\ \A s \in Session : Calm(sess[s], sess'[s])

(* A step of one session that starts no work leaves every session calm.     *)
LEMMA OneCalm ==
    ASSUME sess \in [Session -> Sess], NEW s \in Session, NEW x,
           Calm(sess[s], x), sess' = [sess EXCEPT ![s] = x]
    PROVE  AllCalm
<1>1. ASSUME NEW r \in Session PROVE sess'[r] \in Sess /\ Calm(sess[r], sess'[r])
  <2>1. sess[r] \in Sess /\ Calm(sess[r], sess[r])
    BY CalmSteps
  <2>2. x \in Sess
    BY DEF Calm
  <2> QED BY <2>1, <2>2
<1>2. sess' \in [Session -> Sess]
  BY <1>1
<1> QED BY <1>1, <1>2 DEF AllCalm

(* Two calm operations in a row are calm.                                   *)
LEMMA CalmTrans ==
    ASSUME NEW x \in Sess, NEW y, NEW z, Calm(x, y), Calm(y, z)
    PROVE  Calm(x, z)
<1>1. Busy(x) \in Nat /\ Busy(y) \in Nat /\ Busy(z) \in Nat
  BY BusyNat DEF Calm
<1> QED BY <1>1 DEF Calm

(* doRead.                                                                  *)
LEMMA DoReadCalm ==
    ASSUME sess \in [Session -> Sess], NEW s \in Session, doRead(s)
    PROVE  AllCalm
<1> DEFINE x == sess[s]
           y == updateLastActivity(x)
           z == [y EXCEPT !.posted = y.posted - 1, !.processing = TRUE, !.reads = y.reads + 1]
<1>1. x \in Sess /\ y \in Sess /\ Calm(x, y) /\ Busy(y) = Busy(x) /\ x.posted > 0
  BY CalmSteps DEF doRead, Calm
<1>2. y.posted = x.posted
  BY <1>1 DEF updateLastActivity, Sess
<1>3. sess' = [sess EXCEPT ![s] = z]
  BY DEF doRead, Becomes
<1> HIDE DEF y
<1>4. ASSUME NEW n \in Nat, NEW m \in Nat
      PROVE  [y EXCEPT !.posted = n, !.processing = TRUE, !.reads = m] \in Sess
  BY <1>1 DEF Sess
<1>5. y.posted - 1 \in Nat /\ y.reads + 1 \in Nat
  BY <1>1, <1>2 DEF Sess
<1>6. z \in Sess
  BY <1>4, <1>5
<1>7. Busy(z) = Busy(y) /\ z.made = y.made /\ z.idle = y.idle
  BY <1>1 DEF Busy, Sess
<1>8. Calm(x, z)
  <2> HIDE DEF z
  <2> QED BY <1>1, <1>6, <1>7, BusyNat DEF Calm
<1> QED BY <1>3, <1>8, OneCalm

(* onRead, outside the request handler.                                     *)
LEMMA OnReadCalm ==
    ASSUME sess \in [Session -> Sess], NEW s \in Session, ~sess[s].handling, onRead(s)
    PROVE  AllCalm
<1> DEFINE x == sess[s]
           y == updateLastActivity(x)
           z == [y EXCEPT !.reads = y.reads - 1]
<1>1. x \in Sess /\ y \in Sess /\ Calm(x, y) /\ Busy(y) = Busy(x) /\ x.reads > 0
  BY CalmSteps DEF onRead, Calm
<1>2. y.reads = x.reads /\ y.handling = x.handling
  BY <1>1 DEF updateLastActivity, Sess
<1>3. \/ sess' = [sess EXCEPT ![s] = doClose([z EXCEPT !.processing = FALSE])]
      \/ sess' = [sess EXCEPT ![s] = [z EXCEPT !.processing = FALSE]]
      \/ sess' = [sess EXCEPT ![s] = [z EXCEPT !.processing = FALSE, !.socket = "released"]]
      \/ sess' = [sess EXCEPT ![s] = [z EXCEPT !.handling = TRUE]]
  BY DEF onRead, Becomes, Close
<1> HIDE DEF y
<1>4. ASSUME NEW n \in Nat PROVE [y EXCEPT !.reads = n] \in Sess
  BY <1>1 DEF Sess
<1>5. z \in Sess
  <2>1. y.reads - 1 \in Nat
    BY <1>1, <1>2 DEF Sess
  <2> QED BY <1>4, <2>1
<1>6. Busy(z) = Busy(y) - 1 /\ z.made = y.made /\ z.idle = y.idle /\ z.handling = FALSE
  BY <1>1, <1>2 DEF Busy, Sess
<1>7. Calm(x, z)
  <2> HIDE DEF z
  <2> QED BY <1>1, <1>5, <1>6, BusyNat DEF Calm
<1> HIDE DEF z
<1>8. Calm(z, [z EXCEPT !.processing = FALSE]) /\ [z EXCEPT !.processing = FALSE] \in Sess
  <2> DEFINE w == [z EXCEPT !.processing = FALSE]
  <2>1. w \in Sess
    BY <1>5 DEF Sess
  <2>2. Busy(w) = Busy(z) /\ w.made = z.made /\ w.idle = z.idle
    BY <1>5 DEF Busy, Sess
  <2> HIDE DEF w
  <2>3. Calm(z, w)
    BY <2>1, <2>2, BusyNat DEF Calm
  <2> QED BY <2>1, <2>3 DEF w
<1>9. Calm(z, [z EXCEPT !.processing = FALSE, !.socket = "released"])
  <2> DEFINE w == [z EXCEPT !.processing = FALSE, !.socket = "released"]
  <2>1. w \in Sess
    BY <1>5 DEF Sess
  <2>2. Busy(w) = Busy(z) /\ w.made = z.made /\ w.idle = z.idle
    BY <1>5 DEF Busy, Sess
  <2> HIDE DEF w
  <2>3. Calm(z, w)
    BY <2>1, <2>2, BusyNat DEF Calm
  <2> QED BY <2>3 DEF w
<1>10. Calm(x, [z EXCEPT !.handling = TRUE])
  <2> DEFINE w == [z EXCEPT !.handling = TRUE]
  <2>1. w \in Sess
    BY <1>5 DEF Sess
  <2>2. Busy(w) = Busy(z) + 1 /\ w.made = z.made /\ w.idle = z.idle
    BY <1>5, <1>6 DEF Busy, Sess
  <2> HIDE DEF w
  <2>3. Calm(x, w)
    BY <1>1, <1>6, <2>1, <2>2, BusyNat DEF Calm
  <2> QED BY <2>3 DEF w
<1>11. Calm(x, doClose([z EXCEPT !.processing = FALSE]))
  <2> DEFINE w == [z EXCEPT !.processing = FALSE]
  <2>1. w \in Sess /\ Calm(z, w)
    BY <1>8
  <2> HIDE DEF w
  <2>2. Calm(w, doClose(w)) /\ Busy(doClose(w)) = Busy(w)
    BY <2>1, CalmSteps
  <2>4. Calm(x, w)
    BY <1>1, <1>7, <2>1, CalmTrans
  <2>5. Calm(x, doClose(w))
    BY <1>1, <2>2, <2>4, CalmTrans
  <2> QED BY <2>5 DEF w
<1>12. /\ Calm(x, [z EXCEPT !.processing = FALSE])
       /\ Calm(x, [z EXCEPT !.processing = FALSE, !.socket = "released"])
  <2>1. \A v : Calm(z, v) => Calm(x, v)
    BY <1>1, <1>7, CalmTrans
  <2> QED BY <1>8, <1>9, <2>1
<1>13. PICK w : Calm(x, w) /\ sess' = [sess EXCEPT ![s] = w]
  BY <1>3, <1>10, <1>11, <1>12
<1> QED BY <1>13, OneCalm

(* sendResponse.                                                            *)
LEMMA SendResponseCalm ==
    ASSUME sess \in [Session -> Sess], NEW s \in Session, sendResponse(s)
    PROVE  AllCalm
<1> DEFINE x == sess[s]
           y == updateLastActivity(x)
           z == [y EXCEPT !.handling = FALSE, !.replies = y.replies + 1]
<1>1. x \in Sess /\ y \in Sess /\ Calm(x, y) /\ Busy(y) = Busy(x) /\ x.handling
  BY CalmSteps DEF sendResponse, Calm
<1>2. y.handling = x.handling
  BY <1>1 DEF updateLastActivity, Sess
<1>3. sess' = [sess EXCEPT ![s] = z]
  BY DEF sendResponse, Becomes
<1> HIDE DEF y
<1>4. ASSUME NEW n \in Nat PROVE [y EXCEPT !.handling = FALSE, !.replies = n] \in Sess
  BY <1>1 DEF Sess
<1>5. z \in Sess
  <2>1. y.replies + 1 \in Nat
    BY <1>1 DEF Sess
  <2> QED BY <1>4, <2>1
<1>6. Busy(z) = Busy(y) /\ z.made = y.made /\ z.idle = y.idle
  BY <1>1, <1>2 DEF Busy, Sess
<1>7. Calm(x, z)
  <2> HIDE DEF z
  <2> QED BY <1>1, <1>5, <1>6, BusyNat DEF Calm
<1> QED BY <1>3, <1>7, OneCalm

(* onWrite of a response: the session is idle only when its stream has      *)
(* nothing else to do.                                                      *)
LEMMA OnWriteRepliesCalm ==
    ASSUME sess \in [Session -> Sess], NEW s \in Session, Busy(sess[s]) <= 1,
           onWrite(s, "replies")
    PROVE  AllCalm
<1> DEFINE x == sess[s]
           y == updateLastActivity(x)
           z == [y EXCEPT !.replies = y.replies - 1, !.processing = FALSE]
<1>1. x \in Sess /\ y \in Sess /\ Calm(x, y) /\ Busy(y) = Busy(x) /\ x.replies > 0
  BY CalmSteps DEF onWrite, Calm
<1>2. y.replies = x.replies
  BY <1>1 DEF updateLastActivity, Sess
<1>3. \/ sess' = [sess EXCEPT ![s] = z]
      \/ sess' = [sess EXCEPT ![s] = doClose(z)]
      \/ sess' = [sess EXCEPT ![s] = setIdle(z, TRUE)]
  BY DEF onWrite, Becomes, Close
<1> HIDE DEF y
<1>4. ASSUME NEW n \in Nat PROVE [y EXCEPT !.replies = n, !.processing = FALSE] \in Sess
  BY <1>1 DEF Sess
<1>5. z \in Sess
  <2>1. y.replies - 1 \in Nat
    BY <1>1, <1>2 DEF Sess
  <2> QED BY <1>4, <2>1
<1>6. Busy(z) = Busy(y) - 1 /\ z.made = y.made /\ z.idle = y.idle
  BY <1>1, <1>2 DEF Busy, Sess
<1> HIDE DEF z
<1>7. Busy(x) \in Nat /\ Busy(z) \in Nat /\ Busy(z) = 0
  BY <1>1, <1>5, <1>6, BusyNat
<1>8. Calm(x, z)
  BY <1>1, <1>5, <1>6, <1>7 DEF Calm
<1>9. Calm(x, doClose(z))
  <2>1. Calm(z, doClose(z)) /\ Busy(doClose(z)) = Busy(z)
    BY <1>5, CalmSteps
  <2> QED BY <1>1, <1>8, <2>1, CalmTrans
<1>10. Calm(x, setIdle(z, TRUE))
  <2> DEFINE w == setIdle(z, TRUE)
  <2>1. w \in Sess /\ w.made = z.made /\ Busy(w) = Busy(z)
    BY <1>5, SetIdleFacts
  <2> HIDE DEF w
  <2>2. Calm(x, w)
    BY <1>1, <1>6, <1>7, <2>1 DEF Calm
  <2> QED BY <2>2 DEF w
<1>11. PICK w : Calm(x, w) /\ sess' = [sess EXCEPT ![s] = w]
  BY <1>3, <1>8, <1>9, <1>10
<1> QED BY <1>11, OneCalm

(* onWrite of a 408.                                                        *)
LEMMA OnWriteNoticesCalm ==
    ASSUME sess \in [Session -> Sess], NEW s \in Session, onWrite(s, "notices")
    PROVE  AllCalm
<1> DEFINE x == sess[s]
           y == updateLastActivity(x)
           z == [y EXCEPT !.notices = y.notices - 1, !.processing = FALSE]
<1>1. x \in Sess /\ y \in Sess /\ Calm(x, y) /\ Busy(y) = Busy(x) /\ x.notices > 0
  BY CalmSteps DEF onWrite, Calm
<1>2. y.notices = x.notices
  BY <1>1 DEF updateLastActivity, Sess
<1>3. \/ sess' = [sess EXCEPT ![s] = z]
      \/ sess' = [sess EXCEPT ![s] = doClose(z)]
  BY DEF onWrite, Becomes, Close
<1> HIDE DEF y
<1>4. ASSUME NEW n \in Nat PROVE [y EXCEPT !.notices = n, !.processing = FALSE] \in Sess
  BY <1>1 DEF Sess
<1>5. z \in Sess
  <2>1. y.notices - 1 \in Nat
    BY <1>1, <1>2 DEF Sess
  <2> QED BY <1>4, <2>1
<1>6. Busy(z) = Busy(y) /\ z.made = y.made /\ z.idle = y.idle
  BY <1>1, <1>2 DEF Busy, Sess
<1> HIDE DEF z
<1>7. Busy(x) \in Nat /\ Busy(z) \in Nat
  BY <1>1, <1>5, BusyNat
<1>8. Calm(x, z)
  BY <1>1, <1>5, <1>6, <1>7 DEF Calm
<1>9. Calm(x, doClose(z))
  <2>1. Calm(z, doClose(z)) /\ Busy(doClose(z)) = Busy(z)
    BY <1>5, CalmSteps
  <2> QED BY <1>1, <1>8, <2>1, CalmTrans
<1>11. PICK w : Calm(x, w) /\ sess' = [sess EXCEPT ![s] = w]
  BY <1>3, <1>8, <1>9
<1> QED BY <1>11, OneCalm

(* The callback of a timer: doClose, or a 408.                              *)
LEMMA SessionTimeoutCalm ==
    ASSUME sess \in [Session -> Sess], NEW f, f.session \in Session, sessionTimeout(f)
    PROVE  AllCalm
<1> DEFINE s == f.session
           x == sess[s]
           y == updateLastActivity(x)
           z == [y EXCEPT !.notices = y.notices + 1]
<1>1. x \in Sess /\ y \in Sess /\ Calm(x, y) /\ Busy(y) = Busy(x)
  BY CalmSteps DEF Calm
<1>2. sess' = [sess EXCEPT ![s] = doClose(x)] \/ sess' = [sess EXCEPT ![s] = z]
  <2>1. CASE f.kind = "conn"
    BY <2>1, Zenon DEF sessionTimeout
  <2>2. CASE f.kind # "conn"
    BY <2>2, Zenon DEF sessionTimeout
  <2> QED BY <2>1, <2>2
<1> HIDE DEF y
<1>3. ASSUME NEW n \in Nat PROVE [y EXCEPT !.notices = n] \in Sess
  BY <1>1 DEF Sess
<1>4. z \in Sess
  <2>1. y.notices + 1 \in Nat
    BY <1>1 DEF Sess
  <2> QED BY <1>3, <2>1
<1>5. Busy(z) = Busy(y) /\ z.made = y.made /\ z.idle = y.idle
  BY <1>1 DEF Busy, Sess
<1>6. Calm(x, z)
  <2> HIDE DEF z
  <2> QED BY <1>1, <1>4, <1>5, BusyNat DEF Calm
<1>7. Calm(x, doClose(x))
  BY <1>1, CalmSteps
<1>8. PICK w : Calm(x, w) /\ sess' = [sess EXCEPT ![s] = w]
  BY <1>2, <1>6, <1>7
<1> QED BY <1>8, OneCalm

(* The idle timeout passes.                                                 *)
LEMMA LapseCalm ==
    ASSUME sess \in [Session -> Sess], NEW s \in Session, Lapse(s)
    PROVE  AllCalm
<1> DEFINE x == sess[s]
           z == [x EXCEPT !.lapsed = TRUE]
<1>1. x \in Sess /\ sess' = [sess EXCEPT ![s] = z]
  BY DEF Lapse
<1>2. z \in Sess
  BY <1>1 DEF Sess
<1>3. Busy(z) = Busy(x) /\ z.made = x.made /\ z.idle = x.idle
  BY <1>1 DEF Busy, Sess
<1>4. Calm(x, z)
  <2> HIDE DEF z
  <2> QED BY <1>1, <1>2, <1>3, BusyNat DEF Calm
<1> QED BY <1>1, <1>4, OneCalm

-----------------------------------------------------------------------------
(* What the code's types say of the pool.                                   *)
Waiting == [client : Client, late : BOOLEAN]
Call == [at : {"out", "wait", "run"}, client : Client \cup {NoClient},
         session : Session \cup {NoClient}]

HTypes ==
    /\ sess \in [Session -> Sess]
    /\ idle \in Seq(Session) /\ active \in SUBSET Session
    /\ queue \in Seq(Waiting)
    /\ \A f \in fired \cup calling : f.session \in Session
    /\ caller \in [Caller -> Call]
    /\ \A t \in Caller : caller[t].at = "run" => caller[t].session \in Session

(* A session has at most one thing to do, and none while it is idle.        *)
Serving == \A s \in Session : Busy(sess[s]) <= 1 /\ (sess[s].idle => Busy(sess[s]) = 0)

(* A session in the idle queue has nothing to do, is there once, and is not *)
(* lent as well; the sessions of the pool were made by it.                  *)
Resting ==
    /\ \A i \in DOMAIN idle :
          Busy(sess[idle[i]]) = 0 /\ sess[idle[i]].made /\ idle[i] \notin active
    /\ \A i, j \in DOMAIN idle : idle[i] = idle[j] => i = j
    /\ \A s \in active : sess[s].made

(* A caller holds its session alone, out of the pool, before it runs it.    *)
Held(x, q, t) ==
    LET s == caller[t].session
    IN  /\ Busy(x[s]) = 0
        /\ shutdown \/ x[s].made
        /\ \A i \in DOMAIN q : q[i] # s
        /\ \A u \in Caller : caller[u].at = "run" /\ caller[u].session = s => u = t
Lent == \A t \in Caller : caller[t].at = "run" => Held(sess, idle, t)

HInv == HTypes /\ Serving /\ Resting /\ Lent /\ NoIdleWhileQueued

(* The requests that are not expired, by the lemmas on Kept.                *)
LEMMA LiveFacts ==
    ASSUME NEW q \in Seq(Waiting)
    PROVE  /\ Live(q) \in Seq(Waiting)
           /\ Len(Live(q)) \in Nat /\ Len(Live(q)) <= Len(q)
           /\ q = <<>> => Live(q) = <<>>
<1> DEFINE D == {i \in DOMAIN q : ~q[i].late}
<1>1. D \in SUBSET (DOMAIN q) /\ Live(q) = Kept(q, D)
  BY DEF Live
<1> HIDE DEF D
<1>2. Live(q) \in Seq(Waiting) /\ Len(Live(q)) <= Len(q) /\ Len(Live(q)) \in Nat
  BY <1>1, KeptFacts
<1>3. q = <<>> => Len(q) = 0
  OBVIOUS
<1>4. q = <<>> => Live(q) = <<>>
  BY <1>2, <1>3
<1> QED BY <1>2, <1>4

(* The server before it is started.                                         *)
LEMMA HInit0 == HInit => HInv
<1> SUFFICES ASSUME HInit PROVE HInv
  OBVIOUS
<1>1. Fresh \in Sess /\ Busy(Fresh) = 0 /\ ~Fresh.idle
  BY CreatedFacts
<1>2. \A s \in Session : sess[s] = Fresh
  BY DEF HInit
<1>3. \A t \in Caller : caller[t] = NoCall /\ caller[t].at = "out"
  BY DEF HInit, NoCall
<1>4. HTypes
  <2>1. sess \in [Session -> Sess]
    BY <1>1 DEF HInit
  <2>2. NoCall \in Call
    BY DEF NoCall, Call
  <2>3. caller \in [Caller -> Call]
    BY <2>2 DEF HInit
  <2>4. idle \in Seq(Session) /\ queue \in Seq(Waiting) /\ active \in SUBSET Session
    BY DEF HInit
  <2>5. fired \cup calling = {}
    BY DEF HInit, TInit
  <2> QED BY <2>1, <2>3, <2>4, <2>5, <1>3 DEF HTypes
<1>5. Serving
  BY <1>1, <1>2 DEF Serving
<1>6. Resting
  BY DEF HInit, Resting
<1>7. Lent
  BY <1>3 DEF Lent
<1>8. NoIdleWhileQueued
  BY DEF HInit, NoIdleWhileQueued
<1> QED BY <1>4, <1>5, <1>6, <1>7, <1>8 DEF HInv

(* Calm steps, which leave the pool as it is.                               *)
LEMMA CalmStep ==
    ASSUME HInv, AllCalm, UNCHANGED <<idle, active, queue, shutdown, caller>>,
           \A f \in (fired \cup calling)' : f.session \in Session
    PROVE  HInv'
<1>1. \A s \in Session : /\ Busy(sess[s]) \in Nat /\ Busy(sess'[s]) \in Nat
                         /\ Busy(sess'[s]) <= Busy(sess[s])
                         /\ sess'[s].made = sess[s].made
                         /\ sess'[s].idle => sess[s].idle \/ Busy(sess'[s]) = 0
  BY BusyNat DEF AllCalm, HInv, HTypes, Calm
<1>2. HTypes'
  BY DEF HInv, HTypes, AllCalm
<1>3. Serving'
  BY <1>1 DEF HInv, Serving
<1>4. \A i \in DOMAIN idle : idle[i] \in Session
  BY DEF HInv, HTypes
<1>5. Resting'
  <2>1. \A i \in DOMAIN idle : Busy(sess'[idle[i]]) = 0 /\ sess'[idle[i]].made
    BY <1>1, <1>4 DEF HInv, Resting
  <2>2. \A s \in active : sess'[s].made
    BY <1>1 DEF HInv, Resting, HTypes
  <2> QED BY <2>1, <2>2 DEF HInv, Resting
<1>6. Lent'
  <2>1. ASSUME NEW t \in Caller, caller[t].at = "run"
        PROVE  Busy(sess'[caller[t].session]) = 0 /\ sess'[caller[t].session].made = sess[caller[t].session].made
    BY <1>1, <2>1 DEF HInv, Lent, Held, HTypes
  <2> QED BY <2>1 DEF HInv, Lent, Held
<1>7. NoIdleWhileQueued'
  BY DEF HInv, NoIdleWhileQueued
<1> QED BY <1>2, <1>3, <1>5, <1>6, <1>7 DEF HInv

(* TakeIdle, when nobody waits: the first idle session is lent.             *)
LEMMA TakeIdleStep ==
    ASSUME HInv, NEW t \in Caller, ~shutdown, idle # <<>>, caller[t].at # "run",
           TakeIdle(t), queue' = <<>>, UNCHANGED shutdown
    PROVE  HInv'
<1> DEFINE s == Head(idle)
           x == reset(sess[s])
           r == [at |-> "run", client |-> NoClient, session |-> s]
<1>1. /\ s \in Session /\ s = idle[1] /\ 1 \in DOMAIN idle
      /\ idle' = Tail(idle) /\ active' = active \cup {s}
      /\ sess' = [sess EXCEPT ![s] = x]
      /\ caller' = [caller EXCEPT ![t] = r]
      /\ UNCHANGED <<fired, calling, shutdown>>
  BY DEF TakeIdle, Becomes, Returns, HInv, HTypes
<1>2. sess[s] \in Sess /\ Busy(sess[s]) = 0 /\ sess[s].made
  BY <1>1 DEF HInv, HTypes, Resting
<1>3. x \in Sess /\ x.made = sess[s].made /\ Busy(x) = Busy(sess[s])
  BY <1>2, ResetFacts
<1> HIDE DEF s, x
<1>4. /\ idle' \in Seq(Session) /\ Len(idle') = Len(idle) - 1 /\ Len(idle) \in Nat
      /\ \A i \in DOMAIN idle' : i + 1 \in DOMAIN idle /\ idle'[i] = idle[i + 1] /\ i + 1 # 1
  BY <1>1 DEF HInv, HTypes
<1>5. \A i \in DOMAIN idle' : idle'[i] # s /\ idle'[i] \in Session
  BY <1>1, <1>4 DEF HInv, Resting
<1>6. sess' \in [Session -> Sess] /\ sess'[s] = x /\ \A p \in Session : p # s => sess'[p] = sess[p]
  BY <1>1, <1>3 DEF HInv, HTypes
<1>7. r \in Call
  BY <1>1 DEF Call
<1>8. caller' \in [Caller -> Call] /\ caller'[t] = r /\ \A u \in Caller : u # t => caller'[u] = caller[u]
  <2> HIDE DEF r
  <2> QED BY <1>1, <1>7 DEF HInv, HTypes
<1>9. HTypes'
  <2>1. \A u \in Caller : caller'[u].at = "run" => caller'[u].session \in Session
    BY <1>1, <1>8 DEF HInv, HTypes
  <2>2. queue' \in Seq(Waiting) /\ active' \in SUBSET Session
    BY <1>1 DEF HInv, HTypes
  <2> QED BY <1>1, <1>4, <1>6, <1>8, <2>1, <2>2 DEF HInv, HTypes
<1>10. Serving'
  BY <1>2, <1>3, <1>6 DEF HInv, Serving
<1>11. Resting'
  <2>1. \A i \in DOMAIN idle' : Busy(sess'[idle'[i]]) = 0 /\ sess'[idle'[i]].made /\ idle'[i] \notin active'
    BY <1>1, <1>4, <1>5, <1>6 DEF HInv, Resting
  <2>2. \A i, j \in DOMAIN idle' : idle'[i] = idle'[j] => i = j
    BY <1>4 DEF HInv, Resting
  <2>3. \A p \in active' : sess'[p].made
    BY <1>1, <1>2, <1>3, <1>6 DEF HInv, Resting, HTypes
  <2> QED BY <2>1, <2>2, <2>3 DEF Resting
<1>12. Lent'
  <2>1. ASSUME NEW u \in Caller, u # t, caller[u].at = "run"
        PROVE  caller[u].session \in Session /\ caller[u].session # s
    BY <1>1, <2>1 DEF HInv, HTypes, Lent, Held
  <2>2. ASSUME NEW u \in Caller, caller'[u].at = "run" PROVE Held(sess, idle, u)'
    <3>1. CASE u = t
      <4>1. caller'[u].session = s
        BY <1>8, <3>1
      <4>2. \A w \in Caller : caller'[w].at = "run" /\ caller'[w].session = s => w = u
        BY <1>8, <2>1, <3>1
      <4> QED BY <1>2, <1>3, <1>5, <1>6, <4>1, <4>2 DEF Held
    <3>2. CASE u # t
      <4>1. caller'[u] = caller[u] /\ caller[u].session # s /\ caller[u].session \in Session
        BY <1>8, <2>1, <2>2, <3>2
      <4>2. Held(sess, idle, u)
        BY <2>2, <4>1 DEF HInv, Lent
      <4>3. sess'[caller[u].session] = sess[caller[u].session]
        BY <4>1, <1>6
      <4>4. \A i \in DOMAIN idle' : idle'[i] # caller[u].session
        BY <4>2, <1>4 DEF Held
      <4>5. \A w \in Caller : caller'[w].at = "run" /\ caller'[w].session = caller[u].session => w = u
        BY <4>1, <4>2, <1>8 DEF Held
      <4> QED BY <4>1, <4>2, <4>3, <4>4, <4>5, <1>1 DEF Held
    <3> QED BY <3>1, <3>2
  <2> QED BY <2>2 DEF Lent
<1>13. NoIdleWhileQueued'
  BY DEF NoIdleWhileQueued
<1> QED BY <1>9, <1>10, <1>11, <1>12, <1>13 DEF HInv

(* createNewSession, while there is room: the new session is lent.          *)
LEMMA NewSessionStep ==
    ASSUME HInv, NEW t \in Caller, NEW c \in Client, NEW late, ~shutdown, idle = <<>>,
           caller[t].at # "run", createNewSession(t, c, late), queue' \in Seq(Waiting),
           UNCHANGED <<idle, shutdown>>
    PROVE  HInv'
<1>1. CASE ~wired
  <2>1. UNCHANGED <<sess, fired, calling, active, caller, idle, shutdown>>
    BY <1>1 DEF createNewSession, svars, tvars
  <2>2. HTypes' /\ Serving' /\ Resting'
    BY <2>1 DEF HInv, HTypes, Serving, Resting
  <2>3. Lent'
    BY <2>1 DEF HInv, Lent, Held
  <2>4. NoIdleWhileQueued'
    BY <2>1 DEF NoIdleWhileQueued
  <2> QED BY <2>2, <2>3, <2>4 DEF HInv
<1>2. CASE wired
  <2> DEFINE s == CHOOSE s \in Unmade : TRUE
             x == Created(c)
             r == [at |-> "run", client |-> NoClient, session |-> s]
  <2>1. /\ s \in Session /\ ~sess[s].made
        /\ active' = active \cup {s}
        /\ sess' = [sess EXCEPT ![s] = x]
        /\ caller' = [caller EXCEPT ![t] = r]
        /\ UNCHANGED <<fired, calling, shutdown, idle>>
    BY <1>2 DEF createNewSession, Becomes, Returns, Unmade
  <2>2. x \in Sess /\ x.made /\ Busy(x) = 0
    BY CreatedFacts
  <2> HIDE DEF s, x
  <2>3. sess' \in [Session -> Sess] /\ sess'[s] = x /\ \A p \in Session : p # s => sess'[p] = sess[p]
    BY <2>1, <2>2 DEF HInv, HTypes
  <2>4. r \in Call
    BY <2>1 DEF Call
  <2>5. caller' \in [Caller -> Call] /\ caller'[t] = r /\ \A u \in Caller : u # t => caller'[u] = caller[u]
    <3> HIDE DEF r
    <3> QED BY <2>1, <2>4 DEF HInv, HTypes
  <2>6. HTypes'
    <3>1. \A u \in Caller : caller'[u].at = "run" => caller'[u].session \in Session
      BY <2>1, <2>5 DEF HInv, HTypes
    <3>2. active' \in SUBSET Session
      BY <2>1 DEF HInv, HTypes
    <3> QED BY <2>1, <2>3, <2>5, <3>1, <3>2 DEF HInv, HTypes
  <2>7. Serving'
    BY <2>2, <2>3 DEF HInv, Serving
  <2>8. Resting'
    <3>1. DOMAIN idle' = {}
      BY <2>1
    <3>2. \A p \in active' : sess'[p].made
      BY <2>1, <2>2, <2>3 DEF HInv, Resting, HTypes
    <3> QED BY <3>1, <3>2 DEF Resting
  <2>9. Lent'
    <3>1. ASSUME NEW u \in Caller, u # t, caller[u].at = "run"
          PROVE  caller[u].session \in Session /\ caller[u].session # s
      BY <2>1, <3>1 DEF HInv, HTypes, Lent, Held
    <3>2. ASSUME NEW u \in Caller, caller'[u].at = "run" PROVE Held(sess, idle, u)'
      <4>1. CASE u = t
        <5>1. caller'[u].session = s
          BY <2>5, <4>1
        <5>2. \A w \in Caller : caller'[w].at = "run" /\ caller'[w].session = s => w = u
          BY <2>5, <3>1, <4>1
        <5> QED BY <2>1, <2>2, <2>3, <5>1, <5>2 DEF Held
      <4>2. CASE u # t
        <5>1. caller'[u] = caller[u] /\ caller[u].session # s /\ caller[u].session \in Session
          BY <2>5, <3>1, <3>2, <4>2
        <5>2. Held(sess, idle, u)
          BY <3>2, <5>1 DEF HInv, Lent
        <5>3. sess'[caller[u].session] = sess[caller[u].session]
          BY <5>1, <2>3
        <5>4. \A w \in Caller : caller'[w].at = "run" /\ caller'[w].session = caller[u].session => w = u
          BY <5>1, <5>2, <2>5 DEF Held
        <5> QED BY <5>1, <5>2, <5>3, <5>4, <2>1 DEF Held
      <4> QED BY <4>1, <4>2
    <3> QED BY <3>2 DEF Lent
  <2>10. NoIdleWhileQueued'
    BY <2>1 DEF NoIdleWhileQueued
  <2> QED BY <2>6, <2>7, <2>8, <2>9, <2>10 DEF HInv
<1> QED BY <1>1, <1>2

(* The pool with another queue, and callers that run nothing new.           *)
LEMMA CallerStep ==
    ASSUME HInv, idle = <<>> \/ queue' = <<>> \/ shutdown, queue' \in Seq(Waiting),
           UNCHANGED <<sess, fired, calling, idle, active, shutdown>>,
           caller' \in [Caller -> Call],
           \A t \in Caller : caller'[t].at = "run" => caller'[t] = caller[t]
    PROVE  HInv'
<1>1. HTypes' /\ Serving' /\ Resting'
  <2>1. \A t \in Caller : caller'[t].at = "run" => caller'[t].session \in Session
    BY DEF HInv, HTypes
  <2> QED BY <2>1 DEF HInv, HTypes, Serving, Resting
<1>2. Lent'
  <2>1. ASSUME NEW t \in Caller, caller'[t].at = "run"
        PROVE  caller'[t] = caller[t] /\ Held(sess, idle, t)
    BY <2>1 DEF HInv, Lent
  <2>2. ASSUME NEW t \in Caller, caller'[t].at = "run" PROVE Held(sess, idle, t)'
    <3>1. \A u \in Caller : caller'[u].at = "run" /\ caller'[u].session = caller[t].session => u = t
      BY <2>1, <2>2 DEF Held
    <3> QED BY <2>1, <2>2, <3>1 DEF Held
  <2> QED BY <2>2 DEF Lent
<1>3. NoIdleWhileQueued'
  BY DEF NoIdleWhileQueued
<1> QED BY <1>1, <1>2, <1>3 DEF HInv

(* A request that finds the pool full is queued, and only while no session  *)
(* is idle.                                                                 *)
LEMMA EnqueueStep ==
    ASSUME HInv, NEW t \in Caller, NEW c \in Client, NEW late, idle = <<>>,
           Enqueue(t, c, late), UNCHANGED <<idle, shutdown>>
    PROVE  HInv'
<1>1. queue \in Seq(Waiting)
  BY DEF HInv, HTypes
<1>2. Live(queue) \in Seq(Waiting) /\ [client |-> c, late |-> FALSE] \in Waiting
  BY <1>1, LiveFacts DEF Waiting
<1>3. UNCHANGED <<sess, fired, calling, idle, active, shutdown>>
  BY DEF Enqueue, svars, tvars
<1> DEFINE r == [at |-> "wait", client |-> c, session |-> NoClient]
<1>4. r \in Call /\ r.at = "wait"
  BY DEF Call
<1>5. \/ queue' = Live(queue) /\ UNCHANGED caller
      \/ queue' = Append(Live(queue), [client |-> c, late |-> FALSE]) /\ caller' = [caller EXCEPT ![t] = r]
  BY DEF Enqueue
<1> HIDE DEF r
<1>6. queue' \in Seq(Waiting)
  BY <1>2, <1>5
<1>7. caller' \in [Caller -> Call] /\ \A u \in Caller : caller'[u].at = "run" => caller'[u] = caller[u]
  BY <1>4, <1>5 DEF HInv, HTypes
<1> QED BY <1>3, <1>6, <1>7, CallerStep

(* acquireConnection, with an idle session, a new one or the queue.         *)
LEMMA AcquireStep ==
    ASSUME HInv, NEW t \in Caller, NEW c \in Client, acquireConnection(t, c)
    PROVE  HInv'
<1> DEFINE late == ClientsOf(queue) \ ClientsOf(Live(queue))
<1>1. queue \in Seq(Waiting) /\ Live(queue) \in Seq(Waiting)
  BY LiveFacts DEF HInv, HTypes
<1>2. caller[t].at # "run" /\ UNCHANGED shutdown
  BY DEF acquireConnection
<1>3. CASE shutdown /\ UNCHANGED <<svars, idle, active, queue, caller>>
  <2>1. UNCHANGED <<sess, fired, calling, idle, active, shutdown, caller>> /\ queue' \in Seq(Waiting)
    BY <1>1, <1>2, <1>3 DEF svars, tvars
  <2>2. caller' \in [Caller -> Call]
    BY <2>1 DEF HInv, HTypes
  <2> QED BY <1>3, <2>1, <2>2, CallerStep
<1>4. CASE ~shutdown /\ idle # <<>> /\ TakeIdle(t) /\ queue' = Live(queue)
  <2>1. queue = <<>>
    BY <1>4 DEF HInv, NoIdleWhileQueued
  <2>2. queue' = <<>>
    BY <1>1, <1>4, <2>1, LiveFacts
  <2> QED BY <1>2, <1>4, <2>2, TakeIdleStep
<1>5. CASE ~shutdown /\ idle = <<>> /\ createNewSession(t, c, late) /\ queue' = Live(queue) /\ UNCHANGED idle
  <2> HIDE DEF late
  <2> QED BY <1>1, <1>2, <1>5, NewSessionStep
<1>6. CASE ~shutdown /\ idle = <<>> /\ Enqueue(t, c, late) /\ UNCHANGED idle
  <2> HIDE DEF late
  <2> QED BY <1>2, <1>6, EnqueueStep
<1> QED BY <1>3, <1>4, <1>5, <1>6 DEF acquireConnection

(* What a sleeper of acquireConnection finds when it wakes.                 *)
LEMMA WakeStep ==
    ASSUME HInv, NEW t \in Caller, Wake(t)
    PROVE  HInv'
<1>1. caller[t].at # "run" /\ UNCHANGED shutdown
  BY DEF Wake
<1>2. queue \in Seq(Waiting) /\ (queue # <<>> => Tail(queue) \in Seq(Waiting))
  BY DEF HInv, HTypes
<1>3. Throws(t) => /\ caller' \in [Caller -> Call]
                   /\ \A u \in Caller : caller'[u].at = "run" => caller'[u] = caller[u]
  <2>1. NoCall \in Call /\ NoCall.at = "out"
    BY DEF NoCall, Call
  <2> HIDE DEF NoCall
  <2> QED BY <2>1 DEF Throws, HInv, HTypes
<1>4. CASE shutdown /\ Throws(t) /\ UNCHANGED <<svars, idle, active, queue, client>>
  BY <1>1, <1>2, <1>3, <1>4, CallerStep DEF svars, tvars
<1>5. CASE ~shutdown /\ idle # <<>> /\ TakeIdle(t) /\ UNCHANGED <<queue, client>>
  <2>1. queue' = <<>>
    BY <1>5 DEF HInv, NoIdleWhileQueued
  <2> QED BY <1>1, <1>5, <2>1, TakeIdleStep
<1>6. CASE ~shutdown /\ idle = <<>> /\ Throws(t) /\ (queue' = queue \/ (queue # <<>> /\ queue' = Tail(queue)))
           /\ UNCHANGED <<svars, idle, active>>
  <2>1. queue' \in Seq(Waiting)
    BY <1>2, <1>6
  <2> QED BY <1>1, <1>3, <1>6, <2>1, CallerStep DEF svars, tvars
<1> QED BY <1>4, <1>5, <1>6 DEF Wake

(* processQueuedRequests with sessions x, of which those of q may be lent.  *)
LEMMA QueuedStep ==
    ASSUME HInv, ~shutdown, NEW in_use \in SUBSET Session, NEW q \in Seq(Session),
           NEW x \in [Session -> Sess], NEW t,
           \A s \in Session : Busy(x[s]) <= 1 /\ (x[s].idle => Busy(x[s]) = 0),
           \A i \in DOMAIN q : Busy(x[q[i]]) = 0 /\ x[q[i]].made /\ q[i] \notin in_use,
           \A i, j \in DOMAIN q : q[i] = q[j] => i = j,
           \A s \in in_use : x[s].made,
           \A u \in Caller : caller[u].at = "run" => Held(x, q, u),
           processQueuedRequests(in_use, q, x, t), UNCHANGED <<shutdown, caller>>
    PROVE  HInv'
<1> DEFINE n == IF Len(q) < Len(Live(queue)) THEN Len(q) ELSE Len(Live(queue))
           taken == {q[i] : i \in 1..n}
<1>1. /\ queue \in Seq(Waiting) /\ Live(queue) \in Seq(Waiting)
      /\ Len(Live(queue)) \in Nat /\ Len(q) \in Nat
      /\ q = <<>> <=> Len(q) = 0
  BY LiveFacts DEF HInv, HTypes
<1>2. n \in Nat /\ n <= Len(q) /\ n <= Len(Live(queue)) /\ (n = Len(q) \/ n = Len(Live(queue)))
  BY <1>1
<1>3. /\ active' = in_use \cup taken
      /\ idle' = SubSeq(q, n + 1, Len(q))
      /\ queue' = IF q = <<>> THEN queue ELSE SubSeq(Live(queue), n + 1, Len(Live(queue)))
      /\ sess' = [s \in Session |-> IF s \in taken THEN run(reset(x[s])) ELSE x[s]]
      /\ UNCHANGED <<fired, calling>>
  BY DEF processQueuedRequests
<1> HIDE DEF n
<1>4. /\ idle' \in Seq(Session) /\ Len(idle') = Len(q) - n
      /\ \A i \in DOMAIN idle' : i \in 1..(Len(q) - n) /\ idle'[i] = q[n + i]
  BY <1>1, <1>2, <1>3
<1>5. taken \subseteq Session
  BY <1>2
<1>6. ASSUME NEW s \in Session
      PROVE  /\ sess'[s] \in Sess
             /\ s \notin taken => sess'[s] = x[s]
             /\ sess'[s].made = x[s].made
             /\ s \in taken => Busy(sess'[s]) = Busy(x[s]) + 1 /\ ~sess'[s].idle
  <2>1. x[s] \in Sess
    OBVIOUS
  <2>2. reset(x[s]) \in Sess /\ reset(x[s]).made = x[s].made /\ Busy(reset(x[s])) = Busy(x[s])
    BY <2>1, ResetFacts
  <2>3. /\ run(reset(x[s])) \in Sess /\ run(reset(x[s])).made = x[s].made
        /\ Busy(run(reset(x[s]))) = Busy(x[s]) + 1 /\ ~run(reset(x[s])).idle
    BY <2>2, RunFacts
  <2>4. sess'[s] = IF s \in taken THEN run(reset(x[s])) ELSE x[s]
    BY <1>3
  <2> HIDE DEF taken
  <2> QED BY <2>1, <2>3, <2>4
<1>7. \A s \in taken : Busy(x[s]) = 0 /\ x[s].made
  BY <1>2
<1>8. ASSUME NEW i \in DOMAIN idle'
      PROVE  /\ i \in Nat /\ n + i \in DOMAIN q /\ idle'[i] \in Session
             /\ idle'[i] \notin taken
  <2>1. i \in 1..(Len(q) - n) /\ idle'[i] = q[n + i]
    BY <1>4
  <2>2. i \in Nat /\ i # 0 /\ n + i \in 1..Len(q) /\ n + i > n
    BY <2>1, <1>1, <1>2
  <2>3. n + i \in DOMAIN q
    BY <2>2, <1>1
  <2>4. ASSUME NEW j \in 1..n PROVE q[j] # q[n + i]
    <3>1. j \in DOMAIN q /\ j # n + i
      BY <1>1, <1>2, <2>2
    <3> QED BY <3>1, <2>3
  <2> QED BY <2>1, <2>2, <2>3, <2>4
<1>9. HTypes'
  <2>1. sess' \in [Session -> Sess]
    <3> DEFINE y(s) == IF s \in taken THEN run(reset(x[s])) ELSE x[s]
    <3>1. sess' = [s \in Session |-> y(s)]
      BY <1>3
    <3>2. \A s \in Session : sess'[s] \in Sess
      BY <1>6
    <3> HIDE DEF y
    <3> QED BY <3>1, <3>2
  <2>2. queue' \in Seq(Waiting)
    BY <1>1, <1>2, <1>3
  <2>3. active' \in SUBSET Session
    BY <1>3, <1>5
  <2> QED BY <1>3, <1>4, <2>1, <2>2, <2>3 DEF HInv, HTypes
<1> HIDE DEF taken
<1>10. Serving'
  <2>1. ASSUME NEW s \in Session PROVE Busy(sess'[s]) <= 1 /\ (sess'[s].idle => Busy(sess'[s]) = 0)
    <3>1. CASE s \in taken
      BY <3>1, <1>6, <1>7
    <3>2. CASE s \notin taken
      BY <3>2, <1>6
    <3> QED BY <3>1, <3>2
  <2> QED BY <2>1 DEF Serving
<1>11. Resting'
  <2>1. ASSUME NEW i \in DOMAIN idle'
        PROVE  Busy(sess'[idle'[i]]) = 0 /\ sess'[idle'[i]].made /\ idle'[i] \notin active'
    <3>1. idle'[i] = q[n + i] /\ n + i \in DOMAIN q /\ idle'[i] \in Session /\ idle'[i] \notin taken
      BY <1>4, <1>8
    <3>2. sess'[idle'[i]] = x[q[n + i]]
      BY <3>1, <1>6
    <3> QED BY <3>1, <3>2, <1>3
  <2>2. ASSUME NEW i \in DOMAIN idle', NEW j \in DOMAIN idle', idle'[i] = idle'[j] PROVE i = j
    <3>1. n + i \in DOMAIN q /\ n + j \in DOMAIN q /\ q[n + i] = q[n + j] /\ i \in Nat /\ j \in Nat
      BY <1>4, <1>8, <2>2
    <3>2. n + i = n + j
      BY <3>1
    <3> QED BY <3>1, <3>2, <1>2
  <2>3. \A s \in active' : sess'[s].made
    BY <1>3, <1>5, <1>6, <1>7
  <2> QED BY <2>1, <2>2, <2>3 DEF Resting
<1>12. Lent'
  <2>1. ASSUME NEW u \in Caller, caller[u].at = "run"
        PROVE  caller[u].session \in Session /\ caller[u].session \notin taken
               /\ \A i \in DOMAIN idle' : idle'[i] # caller[u].session
    <3>1. Held(x, q, u) /\ caller[u].session \in Session
      BY <2>1 DEF HInv, HTypes
    <3>2. \A i \in DOMAIN q : q[i] # caller[u].session
      BY <3>1 DEF Held
    <3>3. caller[u].session \notin taken
      BY <3>2, <1>1, <1>2 DEF taken
    <3> QED BY <3>1, <3>2, <3>3, <1>4, <1>8
  <2>2. ASSUME NEW u \in Caller, caller[u].at = "run" PROVE Held(sess, idle, u)'
    <3>1. sess'[caller[u].session] = x[caller[u].session]
      BY <1>6, <2>1, <2>2
    <3>2. Held(x, q, u)
      BY <2>2
    <3> QED BY <2>1, <2>2, <3>1, <3>2 DEF Held
  <2> QED BY <2>2 DEF Lent
<1>13. NoIdleWhileQueued'
  <2>1. CASE Len(q) = n
    BY <2>1, <1>4 DEF NoIdleWhileQueued
  <2>2. CASE Len(q) # n
    <3>1. q # <<>> /\ n = Len(Live(queue))
      BY <2>2, <1>1, <1>2
    <3>2. queue' = SubSeq(Live(queue), n + 1, n)
      BY <3>1, <1>3
    <3>3. queue' = <<>>
      BY <3>1, <3>2, <1>1, <1>2
    <3> QED BY <3>3 DEF NoIdleWhileQueued
  <2> QED BY <2>1, <2>2
<1> QED BY <1>9, <1>10, <1>11, <1>12, <1>13 DEF HInv

(* releaseConnection, and the queued request it serves.                     *)
LEMMA ReleaseStep ==
    ASSUME HInv, NEW s \in active, \A t \in Caller : caller[t].session # s,
           releaseConnection(s)
    PROVE  HInv'
<1>1. /\ s \in Session /\ idle \in Seq(Session) /\ sess \in [Session -> Sess]
      /\ active \in SUBSET Session /\ sess[s] \in Sess /\ sess[s].made
      /\ UNCHANGED <<shutdown, caller>>
  BY DEF HInv, HTypes, Resting, releaseConnection
<1>2. CASE shutdown /\ active' = active \ {s} /\ UNCHANGED <<svars, idle, queue, client>>
  <2>1. UNCHANGED <<sess, fired, calling, idle, queue, shutdown, caller>> /\ active' \subseteq active
    BY <1>1, <1>2 DEF svars, tvars
  <2>2. HTypes' /\ Serving' /\ Resting' /\ NoIdleWhileQueued'
    BY <2>1 DEF HInv, HTypes, Serving, Resting, NoIdleWhileQueued
  <2>3. Lent'
    BY <2>1 DEF HInv, Lent, Held
  <2> QED BY <2>2, <2>3 DEF HInv
<1>3. CASE /\ ~shutdown /\ isIdle(sess[s])
           /\ processQueuedRequests(active \ {s}, Append(idle, s),
                                    [sess EXCEPT ![s] = setIdle(@, TRUE)], timers)
  <2> DEFINE y == setIdle(sess[s], TRUE)
             x == [sess EXCEPT ![s] = y]
             q == Append(idle, s)
  <2>1. Busy(sess[s]) = 0
    BY <1>1, <1>3 DEF HInv, Serving, isIdle
  <2>2. y \in Sess /\ y.made = sess[s].made /\ Busy(y) = Busy(sess[s])
    BY <1>1, SetIdleFacts
  <2>3. processQueuedRequests(active \ {s}, q, x, timers)
    BY <1>3
  <2> HIDE DEF y
  <2>4. x \in [Session -> Sess] /\ x[s] = y /\ \A p \in Session : p # s => x[p] = sess[p]
    BY <1>1, <2>2
  <2>5. /\ q \in Seq(Session) /\ Len(q) = Len(idle) + 1 /\ q[Len(q)] = s /\ Len(idle) \in Nat
        /\ \A i \in DOMAIN q : i \in 1..Len(q)
        /\ \A i \in DOMAIN q : i # Len(q) => i \in DOMAIN idle /\ q[i] = idle[i]
    BY <1>1
  <2>6. \A i \in DOMAIN idle : idle[i] # s /\ idle[i] \in Session
    BY <1>1 DEF HInv, Resting
  <2> HIDE DEF x, q
  <2>7. \A p \in Session : Busy(x[p]) <= 1 /\ (x[p].idle => Busy(x[p]) = 0)
    BY <2>1, <2>2, <2>4 DEF HInv, Serving
  <2>8. \A i \in DOMAIN q : Busy(x[q[i]]) = 0 /\ x[q[i]].made /\ q[i] \notin active \ {s}
    <3>1. ASSUME NEW i \in DOMAIN q, i # Len(q)
          PROVE  Busy(x[q[i]]) = 0 /\ x[q[i]].made /\ q[i] \notin active \ {s}
      <4>1. i \in DOMAIN idle /\ q[i] = idle[i] /\ x[q[i]] = sess[idle[i]]
        BY <3>1, <2>4, <2>5, <2>6
      <4> QED BY <4>1 DEF HInv, Resting
    <3>2. Busy(x[q[Len(q)]]) = 0 /\ x[q[Len(q)]].made /\ q[Len(q)] \notin active \ {s}
      BY <1>1, <2>1, <2>2, <2>4, <2>5
    <3> QED BY <3>1, <3>2
  <2>9. \A i, j \in DOMAIN q : q[i] = q[j] => i = j
    BY <2>5, <2>6 DEF HInv, Resting
  <2>10. \A p \in active \ {s} : x[p].made
    BY <1>1, <2>4 DEF HInv, Resting
  <2>11. ASSUME NEW u \in Caller, caller[u].at = "run" PROVE Held(x, q, u)
    <3>1. caller[u].session \in Session /\ caller[u].session # s /\ Held(sess, idle, u)
      BY <2>11 DEF HInv, HTypes, Lent
    <3>2. x[caller[u].session] = sess[caller[u].session]
      BY <3>1, <2>4
    <3>3. \A i \in DOMAIN q : q[i] # caller[u].session
      BY <3>1, <2>5 DEF Held
    <3> QED BY <3>1, <3>2, <3>3 DEF Held
  <2>12. active \ {s} \in SUBSET Session
    BY <1>1
  <2> QED BY <1>1, <1>3, <2>3, <2>4, <2>5, <2>7, <2>8, <2>9, <2>10, <2>11, <2>12, QueuedStep
<1>4. CASE /\ ~shutdown /\ processQueuedRequests(active \ {s}, idle, sess, timers)
  <2>1. \A u \in Caller : caller[u].at = "run" => Held(sess, idle, u)
    BY DEF HInv, Lent
  <2>2. \A p \in Session : Busy(sess[p]) <= 1 /\ (sess[p].idle => Busy(sess[p]) = 0)
    BY DEF HInv, Serving
  <2>3. /\ \A i \in DOMAIN idle : Busy(sess[idle[i]]) = 0 /\ sess[idle[i]].made /\ idle[i] \notin active \ {s}
        /\ \A i, j \in DOMAIN idle : idle[i] = idle[j] => i = j
        /\ \A p \in active \ {s} : sess[p].made
    BY DEF HInv, Resting
  <2>4. active \ {s} \in SUBSET Session
    BY <1>1
  <2> QED BY <1>1, <1>4, <2>1, <2>2, <2>3, <2>4, QueuedStep
<1> QED BY <1>2, <1>3, <1>4 DEF releaseConnection

(* The cleanup timer closes and forgets idle sessions.                      *)
LEMMA CleanupStep ==
    ASSUME HInv, handleCleanupTimer
    PROVE  HInv'
<1> DEFINE old == {s \in Pooled : sess[s].lapsed}
           D == {i \in DOMAIN idle : ~sess[idle[i]].lapsed}
<1>1. /\ idle' = Kept(idle, D)
      /\ sess' = [s \in Session |-> IF s \in old THEN doClose(sess[s]) ELSE sess[s]]
      /\ UNCHANGED <<fired, calling, active, queue, shutdown, caller>>
  BY DEF handleCleanupTimer
<1> HIDE DEF old
<1>2. idle \in Seq(Session) /\ sess \in [Session -> Sess] /\ D \in SUBSET (DOMAIN idle)
  BY DEF HInv, HTypes
<1> HIDE DEF D
<1>3. idle' \in Seq(Session) /\ Len(idle') \in Nat /\ Len(idle') <= Len(idle)
  BY <1>1, <1>2, KeptFacts
<1>4. /\ \A k \in DOMAIN idle' : \E i \in DOMAIN idle : idle'[k] = idle[i]
      /\ (\A i, j \in DOMAIN idle : idle[i] = idle[j] => i = j)
         => \A k, m \in DOMAIN idle' : idle'[k] = idle'[m] => k = m
  BY <1>1, <1>2, KeptElements
<1>5. ASSUME NEW s \in Session PROVE sess'[s] \in Sess /\ Calm(sess[s], sess'[s])
  <2>1. Calm(sess[s], sess[s]) /\ Calm(sess[s], doClose(sess[s])) /\ sess[s] \in Sess
    BY <1>2, CalmSteps
  <2>2. doClose(sess[s]) \in Sess
    BY <2>1 DEF Calm
  <2>3. sess'[s] = IF s \in old THEN doClose(sess[s]) ELSE sess[s]
    BY <1>1
  <2> QED BY <2>1, <2>2, <2>3
<1>6. sess' \in [Session -> Sess]
  <2> DEFINE y(s) == IF s \in old THEN doClose(sess[s]) ELSE sess[s]
  <2>1. sess' = [s \in Session |-> y(s)]
    BY <1>1
  <2>2. \A s \in Session : sess'[s] \in Sess
    BY <1>5
  <2> HIDE DEF y
  <2> QED BY <2>1, <2>2
<1>7. \A s \in Session : /\ Busy(sess[s]) \in Nat /\ Busy(sess'[s]) \in Nat
                         /\ Busy(sess'[s]) <= Busy(sess[s])
                         /\ sess'[s].made = sess[s].made
                         /\ sess'[s].idle => sess[s].idle \/ Busy(sess'[s]) = 0
  BY <1>2, <1>5, BusyNat DEF Calm
<1>9. HTypes'
  BY <1>1, <1>3, <1>6 DEF HInv, HTypes
<1>10. Serving'
  BY <1>7 DEF HInv, Serving
<1>11. Resting'
  <2>1. ASSUME NEW k \in DOMAIN idle'
        PROVE  Busy(sess'[idle'[k]]) = 0 /\ sess'[idle'[k]].made /\ idle'[k] \notin active'
    <3>1. PICK i \in DOMAIN idle : idle'[k] = idle[i] /\ idle'[k] \in Session
      BY <1>2, <1>4
    <3>2. Busy(sess[idle'[k]]) = 0 /\ sess[idle'[k]].made /\ idle'[k] \notin active
      BY <3>1 DEF HInv, Resting
    <3> QED BY <1>1, <1>7, <3>1, <3>2
  <2>2. \A k, m \in DOMAIN idle' : idle'[k] = idle'[m] => k = m
    BY <1>4 DEF HInv, Resting
  <2>3. \A s \in active' : sess'[s].made
    BY <1>1, <1>7 DEF HInv, HTypes, Resting
  <2> QED BY <2>1, <2>2, <2>3 DEF Resting
<1>12. Lent'
  <2>1. ASSUME NEW u \in Caller, caller[u].at = "run" PROVE Held(sess, idle, u)'
    <3>1. Held(sess, idle, u) /\ caller[u].session \in Session
      BY <2>1 DEF HInv, HTypes, Lent
    <3>2. Busy(sess'[caller[u].session]) = 0 /\ sess'[caller[u].session].made = sess[caller[u].session].made
      BY <1>7, <3>1 DEF Held
    <3>3. \A k \in DOMAIN idle' : idle'[k] # caller[u].session
      BY <1>4, <3>1 DEF Held
    <3> QED BY <1>1, <3>1, <3>2, <3>3 DEF Held
  <2> QED BY <1>1, <2>1 DEF Lent
<1>13. NoIdleWhileQueued'
  <2>1. idle = <<>> => Len(idle) = 0
    OBVIOUS
  <2>2. idle = <<>> => idle' = <<>>
    BY <1>3, <2>1
  <2> QED BY <1>1, <2>2 DEF HInv, NoIdleWhileQueued
<1> QED BY <1>9, <1>10, <1>11, <1>12, <1>13 DEF HInv

(* The session that was lent starts to read.                                *)
LEMMA RunStep ==
    ASSUME HInv, NEW t \in Caller, RunSession(t)
    PROVE  HInv'
<1> DEFINE s == caller[t].session
           x == run(sess[s])
<1>1. /\ caller[t].at = "run" /\ s \in Session /\ sess[s] \in Sess /\ Held(sess, idle, t)
      /\ sess' = [sess EXCEPT ![s] = x] /\ caller' = [caller EXCEPT ![t] = NoCall]
      /\ UNCHANGED <<fired, calling, idle, active, queue, shutdown>>
  BY DEF RunSession, Becomes, Throws, HInv, HTypes, Lent
<1>2. x \in Sess /\ x.made = sess[s].made /\ Busy(x) = 1 /\ ~x.idle
  BY <1>1, RunFacts DEF Held
<1> HIDE DEF s, x
<1>3. sess' \in [Session -> Sess] /\ sess'[s] = x /\ \A p \in Session : p # s => sess'[p] = sess[p]
  BY <1>1, <1>2 DEF HInv, HTypes
<1>4. NoCall \in Call /\ NoCall.at = "out"
  BY DEF NoCall, Call
<1>5. caller' \in [Caller -> Call] /\ caller'[t] = NoCall /\ \A u \in Caller : u # t => caller'[u] = caller[u]
  <2> HIDE DEF NoCall
  <2> QED BY <1>1, <1>4 DEF HInv, HTypes
<1>6. HTypes'
  <2>1. \A u \in Caller : caller'[u].at = "run" => caller'[u].session \in Session
    BY <1>4, <1>5 DEF HInv, HTypes
  <2> QED BY <1>1, <1>3, <1>5, <2>1 DEF HInv, HTypes
<1>7. Serving'
  BY <1>2, <1>3 DEF HInv, Serving
<1>8. \A i \in DOMAIN idle : idle[i] # s /\ idle[i] \in Session
  BY <1>1 DEF HInv, HTypes, Held, s
<1>9. Resting'
  <2>1. \A p \in active : sess'[p].made
    BY <1>1, <1>2, <1>3 DEF HInv, HTypes, Resting
  <2> QED BY <1>1, <1>3, <1>8, <2>1 DEF HInv, Resting
<1>10. Lent'
  <2>1. ASSUME NEW u \in Caller, caller'[u].at = "run" PROVE Held(sess, idle, u)'
    <3>1. u # t /\ caller'[u] = caller[u]
      BY <1>4, <1>5, <2>1
    <3>2. Held(sess, idle, u) /\ caller[u].session \in Session /\ caller[u].at = "run"
      BY <2>1, <3>1 DEF HInv, HTypes, Lent
    <3>3. caller[u].session # s
      BY <1>1, <3>1, <3>2 DEF Held, s
    <3>4. sess'[caller[u].session] = sess[caller[u].session]
      BY <1>3, <3>2, <3>3
    <3>5. \A w \in Caller : caller'[w].at = "run" /\ caller'[w].session = caller[u].session => w = u
      BY <1>4, <1>5, <3>2 DEF Held
    <3> QED BY <1>1, <3>1, <3>2, <3>4, <3>5 DEF Held
  <2> QED BY <2>1 DEF Lent
<1>11. NoIdleWhileQueued'
  BY <1>1 DEF HInv, NoIdleWhileQueued
<1> QED BY <1>6, <1>7, <1>9, <1>10, <1>11 DEF HInv

(* A queued request becomes too old.                                        *)
LEMMA RequestLapsesStep ==
    ASSUME HInv, RequestLapses
    PROVE  HInv'
<1>1. PICK i \in DOMAIN queue : queue' = [queue EXCEPT ![i].late = TRUE]
  BY DEF RequestLapses
<1>2. UNCHANGED <<sess, fired, calling, idle, active, shutdown, caller>>
  BY DEF RequestLapses, svars, tvars
<1>3. queue \in Seq(Waiting) /\ queue[i] \in Waiting
  BY DEF HInv, HTypes
<1>4. [queue[i] EXCEPT !.late = TRUE] \in Waiting
  BY <1>3 DEF Waiting
<1>5. queue' = [queue EXCEPT ![i] = [queue[i] EXCEPT !.late = TRUE]]
  BY <1>1
<1>6. queue' \in Seq(Waiting) /\ Len(queue') = Len(queue)
  <2> DEFINE w == [queue[i] EXCEPT !.late = TRUE]
  <2>1. w \in Waiting /\ queue' = [queue EXCEPT ![i] = w]
    BY <1>4, <1>5
  <2> HIDE DEF w
  <2> QED BY <1>3, <2>1
<1>7. queue # <<>>
  BY <1>3
<1>8. HTypes' /\ Serving' /\ Resting'
  BY <1>2, <1>6 DEF HInv, HTypes, Serving, Resting
<1>9. Lent'
  BY <1>2 DEF HInv, Lent, Held
<1>10. NoIdleWhileQueued'
  BY <1>2, <1>7 DEF HInv, NoIdleWhileQueued
<1> QED BY <1>8, <1>9, <1>10 DEF HInv

(* A handler of a session, or of its timers.                                *)
LEMMA HandlerStep ==
    ASSUME HInv, Handler
    PROVE  HInv'
<1>1. sess \in [Session -> Sess] /\ \A s \in Session : Busy(sess[s]) <= 1
  BY DEF HInv, HTypes, Serving
<1>2. ASSUME NEW s \in Session, SessionHandler(s), UNCHANGED <<idle, active, queue, shutdown, caller>>
      PROVE  HInv'
  <2>1. ~sess[s].handling
    BY <1>2 DEF SessionHandler
  <2>2. AllCalm
    <3>1. CASE doRead(s)
      BY <1>1, <3>1, DoReadCalm
    <3>2. CASE onRead(s)
      BY <1>1, <2>1, <3>2, OnReadCalm
    <3>3. CASE onWrite(s, "replies")
      BY <1>1, <3>3, OnWriteRepliesCalm
    <3>4. CASE onWrite(s, "notices")
      BY <1>1, <3>4, OnWriteNoticesCalm
    <3> QED BY <1>2, <3>1, <3>2, <3>3, <3>4 DEF SessionHandler
  <2>3. UNCHANGED <<fired, calling>>
    <3>1. doRead(s) => UNCHANGED <<fired, calling>>
      BY DEF doRead, Becomes
    <3>2. onRead(s) => UNCHANGED <<fired, calling>>
      BY DEF onRead, Becomes, Close
    <3>3. \A k \in {"replies", "notices"} : onWrite(s, k) => UNCHANGED <<fired, calling>>
      BY DEF onWrite, Becomes, Close
    <3> QED BY <1>2, <3>1, <3>2, <3>3 DEF SessionHandler
  <2>4. \A f \in (fired \cup calling)' : f.session \in Session
    BY <2>3 DEF HInv, HTypes
  <2> QED BY <1>2, <2>2, <2>4, CalmStep
<1>3. ASSUME TimerStep, UNCHANGED <<idle, active, queue, shutdown, caller>>
      PROVE  HInv'
  <2>1. UNCHANGED sess
    BY <1>3 DEF TimerStep
  <2>2. \A f \in (fired \cup calling)' : f.session \in Session
    <3>1. ASSUME NEW s \in Session, NEW k \in Kind, Expire(s, k)
          PROVE  \A f \in (fired \cup calling)' : f.session \in Session
      BY <3>1 DEF Expire, HInv, HTypes
    <3>2. ASSUME NEW f \in fired, handleTimeout(f)
          PROVE  \A g \in (fired \cup calling)' : g.session \in Session
      BY <3>2 DEF handleTimeout, HInv, HTypes
    <3> QED BY <1>3, <3>1, <3>2 DEF TimerStep
  <2>3. AllCalm
    BY <1>1, <2>1, CalmSteps DEF AllCalm
  <2> QED BY <1>3, <2>2, <2>3, CalmStep
<1> QED BY <1>2, <1>3, CleanupStep DEF Handler

(* A timer callback that had expired runs after its session moved on.       *)
LEMMA ContinueStep ==
    ASSUME HInv, Continue
    PROVE  HInv'
<1>1. sess \in [Session -> Sess] /\ \A f \in fired \cup calling : f.session \in Session
  BY DEF HInv, HTypes
<1>2. UNCHANGED <<idle, active, queue, shutdown, caller>>
  BY DEF Continue
<1>3. ASSUME NEW s \in Session, sendResponse(s) PROVE HInv'
  <2>1. AllCalm
    BY <1>1, <1>3, SendResponseCalm
  <2>2. UNCHANGED <<fired, calling>>
    BY <1>3 DEF sendResponse, Becomes
  <2> QED BY <1>1, <1>2, <2>1, <2>2, CalmStep
<1>4. ASSUME NEW f \in calling, sessionTimeout(f) PROVE HInv'
  <2>1. f.session \in Session
    BY <1>1
  <2>2. AllCalm
    BY <1>1, <1>4, <2>1, SessionTimeoutCalm
  <2>3. (fired \cup calling)' \subseteq fired \cup calling
    BY <1>4 DEF sessionTimeout
  <2> QED BY <1>1, <1>2, <2>2, <2>3, CalmStep
<1> QED BY <1>3, <1>4 DEF Continue

(* A timer expires.                                                         *)
LEMMA TimeStep ==
    ASSUME HInv, Time
    PROVE  HInv'
<1>1. ASSUME NEW s \in Pooled, Lapse(s), UNCHANGED <<idle, active, queue, shutdown, caller>>
      PROVE  HInv'
  <2>1. s \in Session /\ sess \in [Session -> Sess]
    BY DEF HInv, HTypes, Pooled
  <2>2. AllCalm
    BY <1>1, <2>1, LapseCalm
  <2>3. \A f \in (fired \cup calling)' : f.session \in Session
    BY <1>1 DEF Lapse, tvars, HInv, HTypes
  <2> QED BY <1>1, <2>2, <2>3, CalmStep
<1> QED BY <1>1, RequestLapsesStep DEF Time

(* The pool is shut down, with its sessions or without.                     *)
LEMMA ShutStep ==
    ASSUME HInv, shutdown' = TRUE, idle' = <<>>, active' = {}, UNCHANGED <<queue, caller>>,
           UNCHANGED sess \/ sess' = [s \in Session |-> Fresh],
           (fired \cup calling)' \subseteq fired \cup calling
    PROVE  HInv'
<1>1. Fresh \in Sess /\ Busy(Fresh) = 0 /\ ~Fresh.idle
  BY CreatedFacts
<1>2. \A s \in Session : sess'[s] = Fresh \/ sess'[s] = sess[s]
  OBVIOUS
<1>3. HTypes'
  <2>1. sess' \in [Session -> Sess]
    BY <1>1 DEF HInv, HTypes
  <2> QED BY <2>1 DEF HInv, HTypes
<1>4. Serving'
  BY <1>1, <1>2 DEF HInv, Serving
<1>5. Resting' /\ NoIdleWhileQueued'
  BY DEF Resting, NoIdleWhileQueued
<1>6. Lent'
  <2>1. ASSUME NEW u \in Caller, caller[u].at = "run" PROVE Held(sess, idle, u)'
    <3>1. Held(sess, idle, u) /\ caller[u].session \in Session
      BY <2>1 DEF HInv, HTypes, Lent
    <3>2. Busy(sess'[caller[u].session]) = 0
      BY <1>1, <1>2, <3>1 DEF Held
    <3> QED BY <3>1, <3>2 DEF Held
  <2> QED BY <2>1 DEF Lent
<1> QED BY <1>3, <1>4, <1>5, <1>6 DEF HInv

(* Every step of the server keeps the invariant.                            *)
LEMMA HStep == HInv /\ [HNext]_hvars => HInv'
<1> SUFFICES ASSUME HInv, [HNext]_hvars PROVE HInv'
  OBVIOUS
<1> DEFINE Same == UNCHANGED <<sess, fired, calling, idle, active, queue, shutdown, caller>>
<1>1. Same => HInv'
  <2>1. Same => HTypes' /\ Serving' /\ Resting' /\ NoIdleWhileQueued'
    BY DEF HInv, HTypes, Serving, Resting, NoIdleWhileQueued
  <2>2. Same => Lent'
    BY DEF HInv, Lent, Held
  <2> QED BY <2>1, <2>2 DEF HInv
<1>2. CASE start
  BY <1>1, <1>2 DEF start, svars, tvars
<1>3. CASE stop
  BY <1>1, <1>3 DEF stop, svars, tvars
<1>4. CASE stopJoined
  BY <1>4, ShutStep DEF stopJoined
<1>5. CASE setRequestHandler
  BY <1>5, ShutStep DEF setRequestHandler, Shutdown, svars, tvars
<1>6. ASSUME NEW t \in Caller, Unseen # {}, onAccept(t, CHOOSE c \in Unseen : TRUE) PROVE HInv'
  <2>1. (CHOOSE c \in Unseen : TRUE) \in Client
    BY <1>6 DEF Unseen
  <2> QED BY <1>6, <2>1, AcquireStep DEF onAccept
<1>7. ASSUME NEW t \in Caller, RunSession(t) PROVE HInv'
  BY <1>7, RunStep
<1>8. ASSUME NEW t \in Caller, WakeCaller(t) PROVE HInv'
  BY <1>8, WakeStep DEF WakeCaller
<1>9. CASE Handler
  BY <1>9, HandlerStep
<1>10. CASE Continue
  BY <1>10, ContinueStep
<1>11. CASE Time
  BY <1>11, TimeStep
<1>12. CASE Release
  BY <1>12, ReleaseStep DEF Release
<1>13. CASE UNCHANGED hvars
  BY <1>1, <1>13 DEF hvars, pvars, svars, tvars
<1> QED BY <1>2, <1>3, <1>4, <1>5, <1>6, <1>7, <1>8, <1>9, <1>10, <1>11, <1>12, <1>13 DEF HNext

(* The invariant holds of every behaviour of the server.                    *)
THEOREM HttpInvariant == HSpec => []HInv
<1> QED BY HInit0, HStep, PTL DEF HSpec

(* A session has one request in hand: at most one of a read posted or       *)
(* outstanding, a request in its handler, and the reply being written,      *)
(* whichever threads lend it, release it, close it by a timeout or shut the *)
(* server down. The 408 that a request timeout writes beside them is not    *)
(* counted.                                                                 *)
THEOREM OneAtATime == HSpec => []SessionServesOne
<1>1. HInv => SessionServesOne
  BY DEF HInv, Serving, Busy, SessionServesOne
<1> QED BY <1>1, HttpInvariant, PTL

(* No request waits in the queue of a pool that has an idle session.        *)
THEOREM QueueServed == HSpec => []NoIdleWhileQueued
<1>1. HInv => NoIdleWhileQueued
  BY DEF HInv
<1> QED BY <1>1, HttpInvariant, PTL

-----------------------------------------------------------------------------
(* The sessions of the pool stay within maxConnections.                     *)
Room ==
    /\ IsFiniteSet(active)
    /\ Cardinality(active) + Len(idle) <= maxConnections
    /\ Len(queue) <= maxQueueSize

(* Lending one more session.                                                *)
LEMMA AddOne ==
    ASSUME NEW A, IsFiniteSet(A), NEW s
    PROVE  /\ IsFiniteSet(A \cup {s}) /\ Cardinality(A) \in Nat
           /\ Cardinality(A \cup {s}) \in Nat
           /\ Cardinality(A \cup {s}) <= Cardinality(A) + 1
BY FS_AddElement, FS_CardinalityType

(* The first n elements of a queue are n sessions at most.                  *)
LEMMA FirstFew ==
    ASSUME NEW q \in Seq(Session), NEW n \in Nat, n <= Len(q)
    PROVE  /\ IsFiniteSet({q[i] : i \in 1..n})
           /\ Cardinality({q[i] : i \in 1..n}) <= n
<1> DEFINE T == {q[i] : i \in 1..n}
           f == [i \in 1..n |-> q[i]]
<1>1. f \in Surjection(1..n, T)
  BY DEF Surjection
<1>2. IsFiniteSet(1..n) /\ Cardinality(1..n) = n
  BY FS_Interval
<1> HIDE DEF T, f
<1>3. IsFiniteSet(T) /\ Cardinality(T) <= n
  BY <1>1, <1>2, FS_Surjection
<1> QED BY <1>3 DEF T

(* A released session that goes to a queued request keeps the room of the   *)
(* pool.                                                                    *)
LEMMA QueuedRoom ==
    ASSUME HInv, Room, NEW s \in active, NEW q \in Seq(Session), Len(q) <= Len(idle) + 1,
           NEW x, NEW t, processQueuedRequests(active \ {s}, q, x, t)
    PROVE  Room'
<1> DEFINE n == IF Len(q) < Len(Live(queue)) THEN Len(q) ELSE Len(Live(queue))
           taken == {q[i] : i \in 1..n}
<1>1. /\ queue \in Seq(Waiting) /\ Live(queue) \in Seq(Waiting) /\ Len(queue) \in Nat
      /\ Len(Live(queue)) \in Nat /\ Len(Live(queue)) <= Len(queue) /\ Len(q) \in Nat
      /\ Len(idle) \in Nat
  BY LiveFacts DEF HInv, HTypes
<1>2. n \in Nat /\ n <= Len(q) /\ n <= Len(Live(queue))
  BY <1>1
<1>3. /\ active' = (active \ {s}) \cup taken
      /\ idle' = SubSeq(q, n + 1, Len(q))
      /\ queue' = IF q = <<>> THEN queue ELSE SubSeq(Live(queue), n + 1, Len(Live(queue)))
  BY DEF processQueuedRequests
<1> HIDE DEF n
<1>4. IsFiniteSet(taken) /\ Cardinality(taken) <= n
  BY <1>2, FirstFew
<1>5. Len(idle') = Len(q) - n /\ Len(queue') <= Len(queue)
  BY <1>1, <1>2, <1>3
<1> HIDE DEF taken
<1> DEFINE A == active \ {s}
<1>6. IsFiniteSet(active) /\ Cardinality(active) \in Nat
  BY FS_CardinalityType DEF Room
<1>7. IsFiniteSet(A) /\ Cardinality(A) = Cardinality(active) - 1
  BY <1>6, FS_RemoveElement
<1>8. Cardinality(taken) \in Nat
  BY <1>4, FS_CardinalityType
<1> HIDE DEF A
<1>9. /\ IsFiniteSet(A \cup taken) /\ IsFiniteSet(A \cap taken)
      /\ Cardinality(A \cup taken) = Cardinality(A) + Cardinality(taken) - Cardinality(A \cap taken)
  <2>1. IsFiniteSet(A \cap taken)
    BY <1>4, FS_Subset
  <2> QED BY <1>4, <1>7, <2>1, FS_Union
<1>10. Cardinality(A \cap taken) \in Nat
  BY <1>9, FS_CardinalityType
<1>11. Cardinality(A \cup taken) <= Cardinality(active) - 1 + n
  BY <1>2, <1>4, <1>6, <1>7, <1>8, <1>9, <1>10
<1>12. active' = A \cup taken
  BY <1>3 DEF A
<1>13. Cardinality(active') \in Nat
  BY <1>9, <1>12, FS_CardinalityType
<1> QED BY <1>1, <1>2, <1>5, <1>6, <1>9, <1>11, <1>12, <1>13, PoolAssumption DEF Room

(* Lending an idle session moves it from one container to the other.        *)
LEMMA TakeIdleRoom ==
    ASSUME HInv, Room, NEW t, idle # <<>>, TakeIdle(t), queue' = <<>>
    PROVE  Room'
<1>1. /\ idle \in Seq(Session) /\ idle' = Tail(idle) /\ active' = active \cup {Head(idle)}
  BY DEF HInv, HTypes, TakeIdle
<1>2. Len(idle) \in Nat /\ Len(idle') = Len(idle) - 1 /\ Len(queue') = 0
  BY <1>1
<1>3. IsFiniteSet(active') /\ Cardinality(active') \in Nat /\ Cardinality(active) \in Nat
      /\ Cardinality(active') <= Cardinality(active) + 1
  BY <1>1, AddOne DEF Room
<1> QED BY <1>2, <1>3, PoolAssumption DEF Room

(* Every step of the server keeps the room of the pool.                     *)
LEMMA RoomStep == HInv /\ Room /\ [HNext]_hvars => Room'
<1> SUFFICES ASSUME HInv, Room, [HNext]_hvars PROVE Room'
  OBVIOUS
<1>0. /\ idle \in Seq(Session) /\ queue \in Seq(Waiting) /\ Len(idle) \in Nat /\ Len(queue) \in Nat
      /\ Live(queue) \in Seq(Waiting) /\ Len(Live(queue)) <= Len(queue) /\ Len(Live(queue)) \in Nat
      /\ (queue = <<>> => Live(queue) = <<>>)
  BY LiveFacts DEF HInv, HTypes
<1> DEFINE Same == UNCHANGED <<idle, active>> /\ Len(queue') <= Len(queue) /\ Len(queue') \in Nat
<1>1. Same => Room'
  BY <1>0, PoolAssumption DEF Room
<1>2. UNCHANGED <<idle, active, queue>> => Room'
  BY <1>0, <1>1
<1>3. idle' = <<>> /\ active' = {} /\ queue' = queue => Room'
  <2>1. IsFiniteSet({}) /\ Cardinality({}) = 0
    BY FS_EmptySet
  <2> QED BY <2>1, PoolAssumption DEF Room
<1> HIDE DEF Same
<1>4. ASSUME NEW t \in Caller, NEW c, onAccept(t, c) PROVE Room'
  <2> DEFINE late == ClientsOf(queue) \ ClientsOf(Live(queue))
  <2>1. CASE UNCHANGED <<idle, active, queue>>
    BY <1>2, <2>1
  <2>2. CASE ~shutdown /\ idle # <<>> /\ TakeIdle(t) /\ queue' = Live(queue)
    <3>1. queue' = <<>>
      BY <1>0, <2>2 DEF HInv, NoIdleWhileQueued
    <3> QED BY <2>2, <3>1, TakeIdleRoom
  <2>3. CASE ~Full /\ idle = <<>> /\ createNewSession(t, c, late) /\ queue' = Live(queue) /\ UNCHANGED idle
    <3>1. CASE ~wired
      <4>1. UNCHANGED active
        BY <2>3, <3>1 DEF createNewSession
      <4> QED BY <1>0, <1>1, <2>3, <4>1 DEF Same
    <3>2. CASE wired
      <4>1. PICK s : active' = active \cup {s}
        BY <2>3, <3>2 DEF createNewSession
      <4>2. IsFiniteSet(active') /\ Cardinality(active') \in Nat /\ Cardinality(active) \in Nat
            /\ Cardinality(active') <= Cardinality(active) + 1
        BY <4>1, AddOne DEF Room
      <4>3. Cardinality(active) < maxConnections /\ Len(idle) = 0
        BY <2>3, <4>2, PoolAssumption DEF Full
      <4> QED BY <1>0, <2>3, <4>2, <4>3, PoolAssumption DEF Room
    <3> QED BY <3>1, <3>2
  <2>4. CASE Enqueue(t, c, late) /\ UNCHANGED idle
    <3>1. UNCHANGED active
      BY <2>4 DEF Enqueue
    <3>2. CASE Len(Live(queue)) >= maxQueueSize
      BY <1>0, <1>1, <2>4, <3>1, <3>2 DEF Enqueue, Same
    <3>3. CASE ~(Len(Live(queue)) >= maxQueueSize)
      <4>1. queue' = Append(Live(queue), [client |-> c, late |-> FALSE])
        BY <2>4, <3>3 DEF Enqueue
      <4>2. Len(queue') = Len(Live(queue)) + 1
        BY <1>0, <4>1
      <4> QED BY <1>0, <2>4, <3>1, <3>3, <4>2, PoolAssumption DEF Room
    <3> QED BY <3>2, <3>3
  <2> HIDE DEF late
  <2> QED BY <1>4, <2>1, <2>2, <2>3, <2>4 DEF onAccept, acquireConnection, late
<1>5. ASSUME NEW t \in Caller, WakeCaller(t) PROVE Room'
  <2>1. CASE UNCHANGED <<idle, active, queue>>
    BY <1>2, <2>1
  <2>2. CASE ~shutdown /\ idle # <<>> /\ TakeIdle(t) /\ UNCHANGED queue
    <3>1. queue' = <<>>
      BY <2>2 DEF HInv, NoIdleWhileQueued
    <3> QED BY <2>2, <3>1, TakeIdleRoom
  <2>3. CASE UNCHANGED <<idle, active>> /\ queue # <<>> /\ queue' = Tail(queue)
    BY <1>0, <1>1, <2>3 DEF Same
  <2> QED BY <1>5, <2>1, <2>2, <2>3 DEF WakeCaller, Wake
<1>6. CASE handleCleanupTimer
  <2>1. PICK D \in SUBSET (DOMAIN idle) : idle' = Kept(idle, D)
    BY <1>6 DEF handleCleanupTimer
  <2>2. Len(idle') \in Nat /\ Len(idle') <= Len(idle) /\ UNCHANGED <<active, queue>>
    BY <1>0, <1>6, <2>1, KeptFacts DEF handleCleanupTimer
  <2>3. Cardinality(active) \in Nat
    BY FS_CardinalityType DEF Room
  <2> QED BY <1>0, <2>2, <2>3, PoolAssumption DEF Room
<1>7. CASE RequestLapses
  <2>1. UNCHANGED <<idle, active>> /\ Len(queue') = Len(queue)
    BY <1>0, <1>7 DEF RequestLapses
  <2> QED BY <2>1 DEF Room
<1>8. ASSUME NEW s \in active, releaseConnection(s) PROVE Room'
  <2>1. CASE active' = active \ {s} /\ UNCHANGED <<idle, queue>>
    <3>1. IsFiniteSet(active') /\ Cardinality(active') = Cardinality(active) - 1
      BY <2>1, FS_RemoveElement DEF Room
    <3>2. Cardinality(active) \in Nat
      BY FS_CardinalityType DEF Room
    <3> QED BY <1>0, <2>1, <3>1, <3>2, PoolAssumption DEF Room
  <2>2. s \in Session
    BY DEF HInv, HTypes
  <2>3. Append(idle, s) \in Seq(Session) /\ Len(Append(idle, s)) <= Len(idle) + 1 /\ Len(idle) <= Len(idle) + 1
    BY <1>0, <2>2
  <2>4. CASE processQueuedRequests(active \ {s}, Append(idle, s), [sess EXCEPT ![s] = setIdle(@, TRUE)], timers)
    BY <2>3, <2>4, QueuedRoom
  <2>5. CASE processQueuedRequests(active \ {s}, idle, sess, timers)
    BY <1>0, <2>3, <2>5, QueuedRoom
  <2> QED BY <1>8, <2>1, <2>4, <2>5 DEF releaseConnection
<1>9. CASE start
  BY <1>2, <1>9 DEF start
<1>10. CASE stop
  BY <1>2, <1>10 DEF stop
<1>11. CASE stopJoined
  BY <1>3, <1>11 DEF stopJoined
<1>12. CASE setRequestHandler
  BY <1>3, <1>12 DEF setRequestHandler, Shutdown
<1>13. ASSUME NEW t \in Caller, RunSession(t) PROVE Room'
  BY <1>2, <1>13 DEF RunSession
<1>14. CASE Handler
  BY <1>2, <1>6, <1>14 DEF Handler
<1>15. CASE Continue
  BY <1>2, <1>15 DEF Continue
<1>16. CASE Time
  BY <1>2, <1>7, <1>16 DEF Time
<1>17. CASE Release
  BY <1>8, <1>17 DEF Release
<1>18. CASE UNCHANGED hvars
  BY <1>2, <1>18 DEF hvars, pvars
<1> QED BY <1>4, <1>5, <1>9, <1>10, <1>11, <1>12, <1>13, <1>14, <1>15, <1>16, <1>17, <1>18 DEF HNext

(* The sessions of the pool, lent and idle, never exceed maxConnections, no *)
(* session is queued twice, none is both lent and idle, and the queue of    *)
(* requests stays within maxQueueSize.                                      *)
THEOREM SessionPoolBounded == HSpec => []SessionsBounded
<1>1. HInit => Room
  <2>1. IsFiniteSet({}) /\ Cardinality({}) = 0
    BY FS_EmptySet
  <2> QED BY <2>1, PoolAssumption DEF HInit, Room
<1>2. HInv /\ Room => SessionsBounded
  <2> SUFFICES ASSUME HInv, Room PROVE SessionsBounded
    OBVIOUS
  <2>1. idle \in Seq(Session) /\ Len(idle) \in Nat /\ DOMAIN idle = 1..Len(idle)
    BY DEF HInv, HTypes
  <2>2. idle \in Injection(1..Len(idle), Pooled) /\ idle \in Surjection(1..Len(idle), Pooled)
    <3>1. idle \in [1..Len(idle) -> Pooled]
      BY <2>1 DEF Pooled
    <3>2. \A i, j \in 1..Len(idle) : idle[i] = idle[j] => i = j
      BY <2>1 DEF HInv, Resting
    <3>3. \A s \in Pooled : \E i \in 1..Len(idle) : idle[i] = s
      BY <2>1 DEF Pooled
    <3> QED BY <3>1, <3>2, <3>3 DEF Injection, IsInjective, Surjection
  <2>3. IsFiniteSet(1..Len(idle)) /\ Cardinality(1..Len(idle)) = Len(idle)
    <3> DEFINE n == Len(idle)
    <3>1. n \in Nat
      BY <2>1
    <3> HIDE DEF n
    <3>2. IsFiniteSet(1..n) /\ Cardinality(1..n) = n
      BY <3>1, FS_Interval
    <3> QED BY <3>2 DEF n
  <2>4. Cardinality(Pooled) = Len(idle)
    BY <2>2, <2>3, FS_Surjection
  <2>5. active \cap Pooled = {}
    BY DEF HInv, Resting, Pooled
  <2> QED BY <2>4, <2>5 DEF SessionsBounded, Room
<1>3. HInv /\ Room /\ [HNext]_hvars => Room'
  BY RoomStep
<1> QED BY <1>1, <1>2, <1>3, HttpInvariant, PTL DEF HSpec
=============================================================================
