---------------------------- MODULE Edges_proofs ----------------------------
(* Proofs about the parts at the server's edges: the way of a push to Apple *)
(* and back, the API calls with their audit log and long polls, the         *)
(* configuration file that the client shells share, and signatures with     *)
(* the receipts made of them.  They hold for every number of sends, calls,  *)
(* shells and requests and for every bound of the models.                   *)
EXTENDS PushPath, Access, ClientStore, Evidence, FiniteSetTheorems, TLAPS

-----------------------------------------------------------------------------
(***************************************************************************)
(* The way of a push (PushPath).                                           *)
(***************************************************************************)
Verdict == [ok : BOOLEAN, retryable : BOOLEAN, invalid : BOOLEAN]
Returned == Verdict \cup {NoVerdict}

PushCall ==
    [at : {"idle", "posted", "ready", "clock", "apple", "result", "reply"}, waits : BOOLEAN,
     target : Targets \cup {NoTarget}, big : BOOLEAN, read : Int, token : Int, late : BOOLEAN,
     apple : {"nothing", "accepted", "busy", "refused", "unregistered"}, result : Returned,
     reply : {"none", "200", "4xx", "5xx"}, body : Returned, verdict : Returned]

(* What VerdictsFollowApple asks of one verdict. *)
Fits(v, apple) ==
    /\ v.ok => apple = "accepted"
    /\ v.invalid => apple = "unregistered"
    /\ ~v.ok /\ ~v.retryable => apple # "accepted"

(* The verdict is derived from Apple's answer in three places, and every    *)
(* one of them has to fit: what send returns, what the relay answers and    *)
(* what the worker is told.  A worker that has given up was told Unheard,   *)
(* which fits whatever Apple does later.                                    *)
CallFollowsApple(c) ==
    /\ c.at = "idle" => ~c.waits
    /\ c.at = "idle" /\ c.verdict # NoVerdict => Fits(c.verdict, c.apple)
    /\ c.at # "idle" => c.verdict \in {NoVerdict, Unheard}
    /\ c.at \in {"posted", "ready", "clock", "apple"} =>
          c.apple = "nothing" /\ c.result = NoVerdict /\ c.body = NoVerdict
    /\ c.at = "result" =>
          (c.result # NoVerdict => Fits(c.result, c.apple)) /\ c.body = NoVerdict
    /\ c.at = "reply" =>
          /\ c.body # NoVerdict => Fits(c.body, c.apple)
          /\ c.reply = "200" => c.apple = "accepted"
          /\ c.reply # "200" /\ c.reply # "5xx" => c.apple # "accepted"

GoodCall(c) == c \in PushCall /\ CallFollowsApple(c)

PathVerdicts == \A p \in Pushes : GoodCall(push[p])
PathTypes ==
    /\ wall \in Nat /\ cached \in Int /\ mints \in Seq(Int)
    /\ push \in [Pushes -> PushCall]
PathInv == PathTypes /\ PathVerdicts

(* The part of it that is about the calls. *)
PushGood == PathVerdicts /\ push \in [Pushes -> PushCall]

LEMMA NoPushIsGood == GoodCall(NoPush)
BY DEF GoodCall, PushCall, CallFollowsApple, NoPush, NoTarget, NoVerdict, Returned, Verdict

LEMMA FailuresAreVerdicts ==
    ASSUME NEW r \in BOOLEAN, NEW i \in BOOLEAN
    PROVE  /\ Failure(r, i) \in Returned
           /\ Failure(r, i).ok = FALSE /\ Failure(r, i).retryable = r /\ Failure(r, i).invalid = i
BY DEF Failure, Returned, Verdict

LEMMA FixedVerdicts ==
    /\ Unheard \in Returned /\ Accepted \in Returned /\ NoVerdict \in Returned
    /\ Accepted.ok /\ ~Accepted.retryable /\ ~Accepted.invalid
    /\ ~Unheard.ok /\ Unheard.retryable /\ ~Unheard.invalid
    /\ ~NoVerdict.ok
BY DEF Unheard, Accepted, NoVerdict, Failure, Returned, Verdict

(* What concludes a call: a verdict that fits, or none if nobody waits. *)
LEMMA ConcludedIsGood ==
    ASSUME NEW c, GoodCall(c), c.at # "idle", NEW v \in Returned, v = NoVerdict \/ Fits(v, c.apple)
    PROVE  GoodCall(Concluded(c, v))
<1>1. Concluded(c, v) = [NoPush EXCEPT !.apple = c.apple, !.verdict = IF c.waits THEN v ELSE c.verdict]
  BY DEF Concluded
<1>2. Fits(Unheard, c.apple)
  BY FixedVerdicts DEF Fits
<1>3. (IF c.waits THEN v ELSE c.verdict) \in Returned
  BY DEF GoodCall, PushCall
<1>4. Concluded(c, v).at = "idle" /\ ~Concluded(c, v).waits /\ Concluded(c, v).apple = c.apple
      /\ Concluded(c, v).verdict = (IF c.waits THEN v ELSE c.verdict)
  BY <1>1 DEF NoPush
<1>5. Concluded(c, v) \in PushCall
  BY <1>1, <1>3, NoPushIsGood DEF GoodCall, PushCall
<1>6. CallFollowsApple(Concluded(c, v))
  BY <1>2, <1>4 DEF GoodCall, CallFollowsApple
<1> QED
  BY <1>5, <1>6 DEF GoodCall

LEMMA ZeroIsInt == 0 \in Int
OBVIOUS

(* Every step of one send leaves its call good. *)
LEMMA CallStepKeepsVerdicts ==
    ASSUME PathInv, NEW p \in Pushes, PathStep(p)
    PROVE  PushGood'
<1> DEFINE c == push[p]
<1>0. GoodCall(c) /\ c \in PushCall /\ CallFollowsApple(c) /\ wall \in Int /\ cached \in Int
  BY DEF PathInv, PathTypes, PathVerdicts, GoodCall
<1>1. ASSUME NEW d, GoodCall(d), Moves(p, d) PROVE PushGood'
  BY <1>1 DEF PushGood, PathInv, PathTypes, PathVerdicts, Moves, GoodCall
<1> HIDE DEF c
<1>u. Fits(Unheard, c.apple)
  BY FixedVerdicts DEF Fits
<1>2. CASE PushRequest(p)
  <2>1. PICK t \in Targets, big \in BOOLEAN :
          Moves(p, [NoPush EXCEPT !.at = IF route = "direct" THEN "ready" ELSE "posted",
                                  !.waits = TRUE, !.target = t, !.big = big])
    BY <1>2 DEF PushRequest
  <2>2. GoodCall([NoPush EXCEPT !.at = IF route = "direct" THEN "ready" ELSE "posted",
                                !.waits = TRUE, !.target = t, !.big = big])
    BY NoPushIsGood DEF GoodCall, PushCall, CallFollowsApple, NoPush
  <2> QED
    BY <1>1, <2>1, <2>2
<1>3. CASE ServerGivesUp(p)
  <2>0. c.at # "idle"
    BY <1>0, <1>3 DEF ServerGivesUp, CallFollowsApple, c
  <2>1. CASE Moves(p, Concluded(c, Unheard))
    BY <1>0, <1>1, <1>u, <2>0, <2>1, ConcludedIsGood, FixedVerdicts
  <2>2. CASE Moves(p, [c EXCEPT !.waits = FALSE, !.verdict = Unheard])
    <3> DEFINE d == [c EXCEPT !.waits = FALSE, !.verdict = Unheard]
    <3>1. d \in PushCall
      BY <1>0, FixedVerdicts DEF PushCall
    <3>2. /\ d.at = c.at /\ d.verdict = Unheard /\ d.apple = c.apple /\ d.result = c.result
          /\ d.body = c.body /\ d.reply = c.reply
      BY <1>0 DEF PushCall
    <3> HIDE DEF d
    <3>3. CallFollowsApple(d)
      BY <1>0, <2>0, <3>2 DEF CallFollowsApple
    <3>4. GoodCall(d)
      BY <3>1, <3>3 DEF GoodCall
    <3> QED
      BY <1>1, <2>2, <3>4 DEF d
  <2> QED
    BY <1>3, <2>1, <2>2 DEF ServerGivesUp, c
<1>4. CASE RelayUnheard(p)
  BY <1>0, <1>1, <1>4, <1>u, ConcludedIsGood, FixedVerdicts DEF RelayUnheard, c
<1>5. CASE ServerHears(p)
  <2>1. PICK readable \in BOOLEAN :
          Moves(p, Concluded(c, CASE c.reply = "200" -> Accepted
                                  [] c.reply # "200" /\ readable /\ c.body # NoVerdict -> c.body
                                  [] OTHER -> Fallback(c.reply)))
    BY <1>5 DEF ServerHears, c
  <2> DEFINE v == CASE c.reply = "200" -> Accepted
                    [] c.reply # "200" /\ readable /\ c.body # NoVerdict -> c.body
                    [] OTHER -> Fallback(c.reply)
  <2>2. c.at = "reply"
    BY <1>5 DEF ServerHears, c
  <2>3. Fallback(c.reply) \in Returned /\ (c.reply # "200" => Fits(Fallback(c.reply), c.apple))
    BY <1>0, <2>2, FailuresAreVerdicts DEF Fallback, CallFollowsApple, Fits
  <2>4. c.reply = "200" => Fits(Accepted, c.apple)
    BY <1>0, <2>2, FixedVerdicts DEF CallFollowsApple, Fits
  <2>5. c.body \in Returned /\ (c.body # NoVerdict => Fits(c.body, c.apple))
    BY <1>0, <2>2 DEF PushCall, CallFollowsApple
  <2>6. v \in Returned /\ Fits(v, c.apple)
    BY <2>3, <2>4, <2>5, FixedVerdicts
  <2> HIDE DEF v
  <2>7. GoodCall(Concluded(c, v))
    BY <1>0, <2>2, <2>6, ConcludedIsGood
  <2> QED
    BY <1>1, <2>1, <2>7 DEF v
<1>6. CASE RelayReceives(p)
  <2>1. GoodCall([c EXCEPT !.at = "ready"]) /\ GoodCall([c EXCEPT !.at = "reply", !.reply = "4xx"])
    BY <1>0, <1>6 DEF RelayReceives, GoodCall, PushCall, CallFollowsApple, c
  <2> QED
    BY <1>1, <1>6, <2>1 DEF RelayReceives, c
<1>7. CASE ReadsClock(p)
  <2>0. c.at = "ready"
    BY <1>7 DEF ReadsClock, c
  <2>1. GoodCall([c EXCEPT !.at = "result", !.big = FALSE, !.result = Failure(FALSE, FALSE)])
    BY <1>0, <2>0, FailuresAreVerdicts DEF GoodCall, PushCall, CallFollowsApple, Fits
  <2>2. GoodCall([c EXCEPT !.at = "clock", !.read = wall])
    BY <1>0, <2>0 DEF GoodCall, PushCall, CallFollowsApple
  <2> QED
    BY <1>1, <1>7, <2>1, <2>2 DEF ReadsClock, c
<1>8. CASE TakesToken(p)
  <2>1. ASSUME NEW t \in Int, c.at = "clock"
        PROVE  GoodCall([c EXCEPT !.at = "apple", !.read = 0, !.token = t])
    <3> DEFINE d == [c EXCEPT !.at = "apple", !.read = 0, !.token = t]
    <3>1. d \in PushCall
      BY <1>0, ZeroIsInt DEF PushCall
    <3>2. /\ d.at = "apple" /\ d.verdict = c.verdict /\ d.apple = c.apple /\ d.result = c.result
          /\ d.body = c.body
      BY <1>0 DEF PushCall
    <3> HIDE DEF d
    <3>3. CallFollowsApple(d)
      BY <1>0, <2>1, <3>2 DEF CallFollowsApple
    <3> QED
      BY <3>1, <3>3 DEF GoodCall, d
  <2>2. c.at = "clock" /\ c.read \in Int
    BY <1>0, <1>8 DEF TakesToken, PushCall, c
  <2>3. \/ Moves(p, [c EXCEPT !.at = "apple", !.read = 0, !.token = cached])
        \/ Moves(p, [c EXCEPT !.at = "apple", !.read = 0, !.token = c.read])
    BY <1>8 DEF TakesToken, c
  <2> QED
    BY <1>0, <1>1, <2>1, <2>2, <2>3
<1>9. CASE ProviderReturns(p)
  <2>1. c.at = "result" /\ c.result \in Returned /\ c.body = NoVerdict
        /\ (c.result # NoVerdict => Fits(c.result, c.apple))
    BY <1>0, <1>9 DEF ProviderReturns, PushCall, CallFollowsApple, c
  <2>2. GoodCall(RelayReply(c))
    <3>1. CASE c.result = NoVerdict
      <4>1. RelayReply(c) = [c EXCEPT !.at = "reply", !.reply = "5xx"]
        BY <3>1 DEF RelayReply, NoVerdict, Accepted
      <4> QED
        BY <1>0, <2>1, <4>1 DEF GoodCall, PushCall, CallFollowsApple
    <3>2. CASE c.result # NoVerdict /\ c.result = Accepted
      <4>1. RelayReply(c) = [c EXCEPT !.at = "reply", !.reply = "200"]
        BY <3>2 DEF RelayReply
      <4>2. c.apple = "accepted"
        BY <2>1, <3>2, FixedVerdicts DEF Fits
      <4> QED
        BY <1>0, <2>1, <4>1, <4>2 DEF GoodCall, PushCall, CallFollowsApple
    <3>3. CASE c.result # NoVerdict /\ c.result # Accepted
      <4> DEFINE code == IF c.result.retryable THEN "5xx" ELSE "4xx"
                 d == [c EXCEPT !.at = "reply", !.body = c.result, !.reply = code]
      <4>1. RelayReply(c) = d
        BY <3>3 DEF RelayReply
      <4>2. d \in PushCall
        BY <1>0, <2>1 DEF PushCall
      <4>3. /\ d.at = "reply" /\ d.verdict = c.verdict /\ d.apple = c.apple /\ d.body = c.result
            /\ d.reply = code
        BY <1>0 DEF PushCall
      <4>4. code # "200" /\ (code # "5xx" => c.apple # "accepted")
        <5>1. c.result \in Verdict
          BY <2>1, <3>3 DEF Returned
        <5>2. c.result.ok /\ ~c.result.retryable /\ ~c.result.invalid => c.result = Accepted
          BY <5>1 DEF Verdict, Accepted
        <5> QED
          BY <2>1, <3>3, <5>1, <5>2 DEF Fits, Verdict
      <4> HIDE DEF d, code
      <4>5. CallFollowsApple(d)
        BY <1>0, <2>1, <3>3, <4>3, <4>4 DEF CallFollowsApple
      <4> QED
        BY <4>1, <4>2, <4>5 DEF GoodCall
    <3> QED
      BY <3>1, <3>2, <3>3
  <2>3. GoodCall(Concluded(c, IF c.result = NoVerdict THEN Unheard ELSE c.result))
    BY <1>0, <1>u, <2>1, ConcludedIsGood, FixedVerdicts
  <2> QED
    BY <1>1, <1>9, <2>2, <2>3 DEF ProviderReturns, c
<1>10. CASE AppleAnswers(p)
  <2>0. c.at = "apple"
    BY <1>10 DEF AppleAnswers, c
  <2>1. PICK answer \in {"accepted", "busy", "refused", "unregistered"}, readable \in BOOLEAN :
          Moves(p, [c EXCEPT !.at = "result", !.token = 0, !.late = FALSE, !.apple = answer,
                     !.result = IF answer = "accepted" THEN Accepted
                                ELSE Failure(answer = "busy", answer = "unregistered" /\ readable)])
    BY <1>10 DEF AppleAnswers, AppleMay, c
  <2> DEFINE v == IF answer = "accepted" THEN Accepted
                  ELSE Failure(answer = "busy", answer = "unregistered" /\ readable)
             d == [c EXCEPT !.at = "result", !.token = 0, !.late = FALSE, !.apple = answer, !.result = v]
  <2>2. v \in Returned /\ Fits(v, answer)
    BY FixedVerdicts, FailuresAreVerdicts DEF Fits
  <2> HIDE DEF v
  <2>3. d \in PushCall
    BY <1>0, <2>2, ZeroIsInt DEF PushCall
  <2>4. d.at = "result" /\ d.verdict = c.verdict /\ d.apple = answer /\ d.result = v /\ d.body = c.body
    BY <1>0 DEF PushCall
  <2> HIDE DEF d
  <2>5. CallFollowsApple(d)
    BY <1>0, <2>0, <2>2, <2>4 DEF CallFollowsApple
  <2> QED
    BY <1>1, <2>1, <2>3, <2>5 DEF GoodCall, d, v
<1>11. CASE AppleUnheard(p)
  <2>1. PICK answer \in {"nothing", "accepted", "busy", "refused", "unregistered"} :
          Moves(p, [c EXCEPT !.at = "result", !.token = 0, !.late = FALSE, !.apple = answer])
    BY <1>11 DEF AppleUnheard, AppleMay, c
  <2> DEFINE d == [c EXCEPT !.at = "result", !.token = 0, !.late = FALSE, !.apple = answer]
  <2>2. d \in PushCall
    BY <1>0, ZeroIsInt DEF PushCall
  <2>3. d.at = "result" /\ d.verdict = c.verdict /\ d.result = c.result /\ d.body = c.body
    BY <1>0 DEF PushCall
  <2>4. c.at = "apple"
    BY <1>11 DEF AppleUnheard, c
  <2> HIDE DEF d
  <2>5. CallFollowsApple(d)
    BY <1>0, <2>3, <2>4 DEF CallFollowsApple
  <2> QED
    BY <1>1, <2>1, <2>2, <2>5 DEF GoodCall, d
<1> QED
  BY <1>2, <1>3, <1>4, <1>5, <1>6, <1>7, <1>8, <1>9, <1>10, <1>11 DEF PathStep

(* A restart of the signing process ends the calls in it, and a tick of the *)
(* clock leaves what they know of Apple alone.                              *)
LEMMA RestartKeepsVerdicts ==
    ASSUME PathInv, SignerRestarts
    PROVE  PushGood'
<1>1. ASSUME NEW p \in Pushes PROVE GoodCall(push'[p])
  <2>1. GoodCall(push[p])
    BY DEF PathInv, PathVerdicts
  <2>2. push'[p] \in {push[p], NoPush}
        \/ (push[p].at # "idle" /\ push'[p] = Concluded(push[p], Unheard))
    BY DEF SignerRestarts
  <2>3. Fits(Unheard, push[p].apple)
    BY FixedVerdicts DEF Fits
  <2> QED
    BY <2>1, <2>2, <2>3, NoPushIsGood, ConcludedIsGood, FixedVerdicts
<1>2. push' = [p \in Pushes |-> push'[p]]
  BY DEF SignerRestarts
<1> QED
  BY <1>1, <1>2 DEF PushGood, PathVerdicts, GoodCall

LEMMA TickKeepsVerdicts ==
    ASSUME PathInv, ClockTicks
    PROVE  PushGood'
<1>1. ASSUME NEW p \in Pushes PROVE GoodCall(push'[p])
  <2> DEFINE c == push[p]
             l == InFlight(c)
             d == [c EXCEPT !.late = l]
  <2>1. c \in PushCall /\ CallFollowsApple(c)
    BY DEF PathInv, PathVerdicts, GoodCall
  <2>2. l \in BOOLEAN /\ push'[p] = d
    BY DEF ClockTicks, InFlight
  <2> HIDE DEF c, l
  <2>3. d \in PushCall
    BY <2>1, <2>2 DEF PushCall
  <2>4. /\ d.at = c.at /\ d.waits = c.waits /\ d.verdict = c.verdict /\ d.apple = c.apple
        /\ d.result = c.result /\ d.body = c.body /\ d.reply = c.reply
    BY <2>1 DEF PushCall
  <2> HIDE DEF d
  <2>5. CallFollowsApple(d)
    BY <2>1, <2>4 DEF CallFollowsApple
  <2> QED
    BY <2>2, <2>3, <2>5 DEF GoodCall
<1>2. push' = [p \in Pushes |-> push'[p]]
  BY DEF ClockTicks
<1> QED
  BY <1>1, <1>2 DEF PushGood, PathVerdicts, GoodCall

LEMMA PathStepKeepsInv ==
    ASSUME PathInv, [PathNext]_pathVars
    PROVE  PathInv'
<1>1. CASE \E p \in Pushes : PathStep(p)
  <2>1. PICK p \in Pushes : PathStep(p)
    BY <1>1
  <2>2. PushGood'
    BY <2>1, CallStepKeepsVerdicts
  <2>3. push[p].at = "clock" => push[p].read \in Int
    BY DEF PathInv, PathTypes, PushCall
  <2>4. (wall \in Nat /\ cached \in Int /\ mints \in Seq(Int))'
    <3>1. CASE TakesToken(p)
      <4>1. push[p].read \in Int /\ mints \in Seq(Int) /\ cached \in Int /\ wall \in Nat
        BY <2>3, <3>1 DEF TakesToken, PathInv, PathTypes
      <4>2. \/ UNCHANGED <<cached, mints>>
            \/ cached' = push[p].read /\ mints' = Append(mints, push[p].read)
        BY <3>1 DEF TakesToken
      <4>3. Append(mints, push[p].read) \in Seq(Int)
        BY <4>1
      <4>4. wall' = wall
        BY <3>1 DEF TakesToken
      <4> QED
        BY <4>1, <4>2, <4>3, <4>4
    <3>2. CASE ~TakesToken(p)
      <4>1. UNCHANGED <<wall, cached, mints>>
        BY <2>1, <3>2 DEF PathStep, PushRequest, ServerGivesUp, RelayUnheard, ServerHears,
           RelayReceives, ReadsClock, ProviderReturns, AppleAnswers, AppleUnheard
      <4> QED
        BY <4>1 DEF PathInv, PathTypes
    <3> QED
      BY <3>1, <3>2
  <2> QED
    BY <2>2, <2>4 DEF PathInv, PathTypes, PushGood
<1>2. CASE SignerRestarts
  <2>1. (wall \in Nat /\ cached \in Int /\ mints \in Seq(Int))'
    BY <1>2 DEF PathInv, PathTypes, SignerRestarts, NoToken
  <2> QED
    BY <1>2, <2>1, RestartKeepsVerdicts DEF PathInv, PathTypes, PushGood
<1>3. CASE ClockTicks
  <2>1. (wall \in Nat /\ cached \in Int /\ mints \in Seq(Int))'
    BY <1>3 DEF PathInv, PathTypes, ClockTicks
  <2> QED
    BY <1>3, <2>1, TickKeepsVerdicts DEF PathInv, PathTypes, PushGood
<1>4. CASE UNCHANGED pathVars
  BY <1>4 DEF pathVars, PathInv, PathTypes, PathVerdicts
<1> QED
  BY <1>1, <1>2, <1>3, <1>4 DEF PathNext

LEMMA PathInvHolds == PathSpec => []PathInv
<1>1. PathInit => PathInv
  BY NoPushIsGood DEF PathInit, PathInv, PathTypes, PathVerdicts, GoodCall, NoToken
<1>2. PathInv /\ [PathNext]_pathVars => PathInv'
  BY PathStepKeepsInv
<1> QED
  BY <1>1, <1>2, PTL DEF PathSpec

(* For any number of sends, on either route and however often an answer is  *)
(* lost, cut short or late or the signing process restarts, the verdict the *)
(* push worker acts on never contradicts what Apple did with the push.      *)
THEOREM VerdictsAreApples == PathSpec => []VerdictsFollowApple
<1>1. PathInv => VerdictsFollowApple
  <2> SUFFICES ASSUME PathInv, NEW p \in Pushes, push[p].verdict # NoVerdict
               PROVE  Fits(push[p].verdict, push[p].apple)
    BY DEF VerdictsFollowApple, Fits
  <2>1. CallFollowsApple(push[p])
    BY DEF PathInv, PathVerdicts, GoodCall
  <2>2. Fits(Unheard, push[p].apple)
    BY FixedVerdicts DEF Fits
  <2> QED
    BY <2>1, <2>2 DEF CallFollowsApple
<1> QED
  BY <1>1, PathInvHolds, PTL

(* The provider token.  A send that waits for the lock read the clock at    *)
(* most one unit ago, so the token it takes was fresh at most one unit ago, *)
(* and the cached token is always the last one signed.                      *)
Lateness(c) == IF c.late THEN 1 ELSE 0

SendTokens ==
    \A p \in Pushes :
        /\ push[p].at = "clock" =>
              push[p].read \in Nat /\ push[p].read <= wall /\ wall - push[p].read <= Lateness(push[p])
        /\ push[p].at = "apple" => wall - push[p].token <= RefreshAfter - 1 + Lateness(push[p])

CachedIsLast ==
    IF mints = <<>> THEN cached = NoToken ELSE cached \in Nat /\ cached = mints[Len(mints)]
MintsApart == \A i \in 2..Len(mints) : mints[i] - mints[i - 1] >= UpdateGap

TokenInv == PathInv /\ SendTokens /\ CachedIsLast /\ MintsApart

(* Steps that neither read the clock nor take a token. *)
SameSend(d, c) == d.at = c.at /\ d.read = c.read /\ d.token = c.token /\ d.late = c.late

LEMMA OtherStepsKeepTokens ==
    ASSUME TokenInv, NEW p \in Pushes, NEW d, Moves(p, d),
           d.at \notin {"clock", "apple"} \/ SameSend(d, push[p]),
           UNCHANGED <<wall, cached, mints>>
    PROVE  (SendTokens /\ CachedIsLast /\ MintsApart)'
BY DEF TokenInv, PathInv, PathTypes, SendTokens, CachedIsLast, MintsApart, Moves, Lateness, SameSend

LEMMA CallStepKeepsTokens ==
    ASSUME TokenInv, NEW p \in Pushes, PathStep(p)
    PROVE  (SendTokens /\ CachedIsLast /\ MintsApart)'
<1> DEFINE c == push[p]
<1>0. c \in PushCall /\ wall \in Nat /\ cached \in Int /\ mints \in Seq(Int)
  BY DEF TokenInv, PathInv, PathTypes
<1>1. ASSUME NEW v PROVE Concluded(c, v).at = "idle"
  BY DEF Concluded, NoPush
<1>2. CASE PushRequest(p)
  <2>1. PICK t \in Targets, big \in BOOLEAN :
          Moves(p, [NoPush EXCEPT !.at = IF route = "direct" THEN "ready" ELSE "posted",
                                  !.waits = TRUE, !.target = t, !.big = big])
    BY <1>2 DEF PushRequest
  <2>2. [NoPush EXCEPT !.at = IF route = "direct" THEN "ready" ELSE "posted",
                       !.waits = TRUE, !.target = t, !.big = big].at \notin {"clock", "apple"}
    BY DEF NoPush
  <2>3. UNCHANGED <<wall, cached, mints>>
    BY <1>2 DEF PushRequest
  <2> QED
    BY <2>1, <2>2, <2>3, OtherStepsKeepTokens
<1>3. CASE ServerGivesUp(p)
  <2>1. UNCHANGED <<wall, cached, mints>>
    BY <1>3 DEF ServerGivesUp
  <2>2. CASE Moves(p, Concluded(c, Unheard))
    BY <1>1, <2>1, <2>2, OtherStepsKeepTokens
  <2>3. CASE Moves(p, [c EXCEPT !.waits = FALSE, !.verdict = Unheard])
    <3>1. SameSend([c EXCEPT !.waits = FALSE, !.verdict = Unheard], c)
      BY <1>0 DEF SameSend, PushCall
    <3> QED
      BY <2>1, <2>3, <3>1, OtherStepsKeepTokens
  <2> QED
    BY <1>3, <2>2, <2>3 DEF ServerGivesUp
<1>4. CASE RelayUnheard(p)
  BY <1>1, <1>4, OtherStepsKeepTokens DEF RelayUnheard
<1>5. CASE ServerHears(p)
  <2>1. PICK v : Moves(p, Concluded(c, v))
    BY <1>5 DEF ServerHears
  <2> QED
    BY <1>1, <1>5, <2>1, OtherStepsKeepTokens DEF ServerHears
<1>6. CASE RelayReceives(p)
  <2>1. /\ [c EXCEPT !.at = "ready"].at = "ready"
        /\ [c EXCEPT !.at = "reply", !.reply = "4xx"].at = "reply"
    BY <1>0 DEF PushCall
  <2> QED
    BY <1>6, <2>1, OtherStepsKeepTokens DEF RelayReceives
<1>7. CASE ReadsClock(p)
  <2>1. UNCHANGED <<wall, cached, mints>>
    BY <1>7 DEF ReadsClock
  <2>2. CASE c.big
    <3>1. [c EXCEPT !.at = "result", !.big = FALSE, !.result = Failure(FALSE, FALSE)].at = "result"
      BY <1>0 DEF PushCall
    <3> QED
      BY <1>7, <2>1, <2>2, <3>1, OtherStepsKeepTokens DEF ReadsClock
  <2>3. CASE ~c.big
    <3> DEFINE d == [c EXCEPT !.at = "clock", !.read = wall]
    <3>1. Moves(p, d)
      BY <1>7, <2>3 DEF ReadsClock
    <3>2. d.at = "clock" /\ d.read = wall /\ d.late \in BOOLEAN
      BY <1>0 DEF PushCall
    <3> HIDE DEF d
    <3> QED
      BY <1>0, <2>1, <3>1, <3>2 DEF TokenInv, PathInv, PathTypes, SendTokens, CachedIsLast,
         MintsApart, Moves, Lateness
  <2> QED
    BY <2>2, <2>3
<1>8. CASE TakesToken(p)
  <2> DEFINE minted == IF cached # NoToken /\ StillFresh(c.read, cached) THEN cached ELSE c.read
             d == [c EXCEPT !.at = "apple", !.read = 0, !.token = minted]
  <2>1. c.at = "clock" /\ wall' = wall /\ Moves(p, d)
    BY <1>8 DEF TakesToken
  <2>2. c.read \in Nat /\ c.read <= wall /\ wall - c.read <= Lateness(c) /\ Lateness(c) \in {0, 1}
    BY <2>1 DEF TokenInv, SendTokens, Lateness
  <2>3. d.at = "apple" /\ d.token = minted /\ d.late = c.late
    BY <1>0 DEF PushCall
  <2>4. wall - minted <= RefreshAfter - 1 + Lateness(c) /\ minted \in Int
    <3>1. RefreshAfter \in Nat /\ RefreshAfter > 0
      BY PushPathAssumption
    <3>2. CASE cached # NoToken /\ StillFresh(c.read, cached)
      <4>1. minted = cached /\ c.read - cached < RefreshAfter
        BY <1>0, <2>2, <3>1, <3>2 DEF StillFresh
      <4> HIDE DEF minted, c
      <4> QED
        BY <1>0, <2>2, <3>1, <4>1
    <3>3. CASE ~(cached # NoToken /\ StillFresh(c.read, cached))
      <4>1. minted = c.read
        BY <3>3
      <4> HIDE DEF minted, c
      <4> QED
        BY <1>0, <2>2, <3>1, <4>1
    <3> QED
      BY <3>2, <3>3
  <2> HIDE DEF d, minted
  <2>5. SendTokens'
    BY <1>0, <2>1, <2>3, <2>4 DEF TokenInv, PathInv, PathTypes, SendTokens, Moves, Lateness
  <2>6. CASE cached # NoToken /\ StillFresh(c.read, cached)
    <3>1. UNCHANGED <<cached, mints>>
      BY <1>8, <2>6 DEF TakesToken
    <3> QED
      BY <2>5, <3>1 DEF TokenInv, CachedIsLast, MintsApart
  <2>7. CASE ~(cached # NoToken /\ StillFresh(c.read, cached))
    <3>1. cached' = c.read /\ mints' = Append(mints, c.read)
      BY <1>8, <2>7 DEF TakesToken
    <3>2. mints # <<>> => c.read - mints[Len(mints)] >= UpdateGap
      <4>1. CASE cached = NoToken
        BY <4>1 DEF TokenInv, CachedIsLast, NoToken
      <4>2. CASE ~StillFresh(c.read, cached) /\ cached # NoToken
        BY <1>0, <2>2, <4>2, PushPathAssumption DEF StillFresh, TokenInv, CachedIsLast, NoToken
      <4> QED
        BY <2>7, <4>1, <4>2
    <3>3. CachedIsLast'
      BY <1>0, <2>2, <3>1 DEF CachedIsLast
    <3>4. MintsApart'
      <4> SUFFICES ASSUME NEW i \in 2..Len(mints')
                   PROVE  mints'[i] - mints'[i - 1] >= UpdateGap
        BY DEF MintsApart
      <4>1. Len(mints') = Len(mints) + 1 /\ \A j \in 1..Len(mints) : mints'[j] = mints[j]
        BY <1>0, <3>1
      <4>2. mints'[Len(mints) + 1] = c.read
        BY <1>0, <3>1
      <4>3. CASE i <= Len(mints)
        BY <1>0, <4>1, <4>3 DEF TokenInv, MintsApart
      <4>4. CASE i = Len(mints) + 1
        BY <1>0, <3>2, <4>1, <4>2, <4>4
      <4> QED
        BY <1>0, <4>1, <4>3, <4>4
    <3> QED
      BY <2>5, <3>3, <3>4
  <2> QED
    BY <2>6, <2>7
<1>9. CASE ProviderReturns(p)
  <2>1. RelayReply(c).at = "reply"
    BY <1>0 DEF RelayReply, PushCall
  <2> QED
    BY <1>1, <1>9, <2>1, OtherStepsKeepTokens DEF ProviderReturns
<1>10. CASE AppleAnswers(p)
  <2>1. PICK answer, v :
          Moves(p, [c EXCEPT !.at = "result", !.token = 0, !.late = FALSE, !.apple = answer, !.result = v])
    BY <1>10 DEF AppleAnswers
  <2>2. [c EXCEPT !.at = "result", !.token = 0, !.late = FALSE, !.apple = answer, !.result = v].at = "result"
    BY <1>0 DEF PushCall
  <2>3. UNCHANGED <<wall, cached, mints>>
    BY <1>10 DEF AppleAnswers
  <2> QED
    BY <2>1, <2>2, <2>3, OtherStepsKeepTokens
<1>11. CASE AppleUnheard(p)
  <2>1. PICK answer : Moves(p, [c EXCEPT !.at = "result", !.token = 0, !.late = FALSE, !.apple = answer])
    BY <1>11 DEF AppleUnheard
  <2>2. [c EXCEPT !.at = "result", !.token = 0, !.late = FALSE, !.apple = answer].at = "result"
    BY <1>0 DEF PushCall
  <2>3. UNCHANGED <<wall, cached, mints>>
    BY <1>11 DEF AppleUnheard
  <2> QED
    BY <2>1, <2>2, <2>3, OtherStepsKeepTokens
<1> QED
  BY <1>2, <1>3, <1>4, <1>5, <1>6, <1>7, <1>8, <1>9, <1>10, <1>11 DEF PathStep

LEMMA TokenStepKeepsInv ==
    ASSUME TokenInv, [PathNext]_pathVars
    PROVE  TokenInv'
<1>0. PathInv'
  BY PathStepKeepsInv DEF TokenInv
<1>1. CASE \E p \in Pushes : PathStep(p)
  BY <1>0, <1>1, CallStepKeepsTokens DEF TokenInv
<1>2. CASE SignerRestarts
  <2>1. \A p \in Pushes : push'[p].at = "idle"
    BY <1>2 DEF SignerRestarts, NoPush, Concluded
  <2>2. cached' = NoToken /\ mints' = <<>>
    BY <1>2 DEF SignerRestarts
  <2>3. SendTokens'
    BY <2>1 DEF SendTokens
  <2> QED
    BY <1>0, <2>2, <2>3 DEF TokenInv, CachedIsLast, MintsApart
<1>3. CASE ClockTicks
  <2>1. SendTokens'
    <3> SUFFICES ASSUME NEW p \in Pushes
                 PROVE  /\ push'[p].at = "clock" =>
                              /\ push'[p].read \in Nat /\ push'[p].read <= wall'
                              /\ wall' - push'[p].read <= Lateness(push'[p])
                        /\ push'[p].at = "apple" =>
                              wall' - push'[p].token <= RefreshAfter - 1 + Lateness(push'[p])
      BY DEF SendTokens, Lateness
    <3> DEFINE c == push[p]
               d == [c EXCEPT !.late = InFlight(c)]
    <3>1. push'[p] = d /\ wall' = wall + 1 /\ ~(InFlight(c) /\ c.late)
      BY <1>3 DEF ClockTicks
    <3>2. c \in PushCall /\ wall \in Nat
      BY DEF TokenInv, PathInv, PathTypes
    <3>3. d.at = c.at /\ d.read = c.read /\ d.token = c.token /\ d.late = InFlight(c)
          /\ c.token \in Int
      BY <3>2 DEF PushCall
    <3>4. /\ c.at = "clock" => c.read \in Nat /\ c.read <= wall /\ wall - c.read <= Lateness(c)
          /\ c.at = "apple" => wall - c.token <= RefreshAfter - 1 + Lateness(c)
      BY DEF TokenInv, SendTokens
    <3> HIDE DEF c, d
    <3>5. CASE c.at = "clock"
      <4>1. Lateness(c) = 0 /\ Lateness(d) = 1
        BY <3>1, <3>3, <3>5 DEF InFlight, Lateness
      <4> QED
        BY <3>1, <3>2, <3>3, <3>4, <3>5, <4>1
    <3>6. CASE c.at = "apple"
      <4>1. Lateness(c) = 0 /\ Lateness(d) = 1
        BY <3>1, <3>3, <3>6 DEF InFlight, Lateness
      <4>2. RefreshAfter \in Nat
        BY PushPathAssumption
      <4> QED
        BY <3>1, <3>2, <3>3, <3>4, <3>6, <4>1, <4>2
    <3> QED
      BY <3>1, <3>3, <3>5, <3>6
  <2> QED
    BY <1>0, <1>3, <2>1 DEF ClockTicks, TokenInv, CachedIsLast, MintsApart
<1>4. CASE UNCHANGED pathVars
  BY <1>4, <1>0 DEF pathVars, TokenInv, SendTokens, CachedIsLast, MintsApart
<1> QED
  BY <1>1, <1>2, <1>3, <1>4 DEF PathNext

(* Although sends read the clock before they take the lock on the cached    *)
(* token, none reaches Apple with an expired token and the process signs no *)
(* two tokens within the update gap, whatever the refresh and expiry times. *)
THEOREM ProviderTokensAreAccepted == PathSpec => []ProviderTokensWithinLimits
<1>1. PathInit => TokenInv
  <2>1. PathInit => PathInv
    BY NoPushIsGood DEF PathInit, PathInv, PathTypes, PathVerdicts, GoodCall, NoToken
  <2>2. PathInit => SendTokens /\ CachedIsLast /\ MintsApart
    BY DEF PathInit, SendTokens, CachedIsLast, MintsApart, NoPush
  <2> QED
    BY <2>1, <2>2 DEF TokenInv
<1>2. TokenInv /\ [PathNext]_pathVars => TokenInv'
  BY TokenStepKeepsInv
<1>3. TokenInv => ProviderTokensWithinLimits
  <2> SUFFICES ASSUME TokenInv, NEW p \in Pushes, push[p].at = "apple"
               PROVE  wall - push[p].token <= ExpireAfter
    BY DEF ProviderTokensWithinLimits, TokenInv, MintsApart
  <2>1. wall \in Nat /\ push[p].token \in Int
    BY DEF TokenInv, PathInv, PathTypes, PushCall
  <2>2. wall - push[p].token <= RefreshAfter - 1 + Lateness(push[p])
    BY DEF TokenInv, SendTokens
  <2> QED
    BY <2>1, <2>2, PushPathAssumption DEF Lateness
<1> QED
  BY <1>1, <1>2, <1>3, PTL DEF PathSpec
-----------------------------------------------------------------------------
(***************************************************************************)
(* The API calls, their audit log and the long polls (Access).             *)
(***************************************************************************)
Steps == {"audit", "send"}
Offered == UNION {{o.op : o \in Offers[c]} : c \in Calls}

CallRow ==
    [pc : {"off", "arrived", "check", "commit", "after", "waiting", "done", "gone"},
     op : Offered \cup {"none"}, as : Tokens \cup {Admin, Server, NoUser},
     on : Reqs \cup Tokens \cup {NoUser}, rest : Seq(Steps), until : Nat, deadline : Nat,
     reply : {"none", "refused", "ok", "answered", "timed_out"}]

AuditRow == [log : SUBSET Calls, size : Nat, gone : BOOLEAN, error : BOOLEAN]

(* A handler that has yet to audit still has the step before it; one that   *)
(* audited is in the log or left an error behind.                           *)
HasAudit(steps) == \E i \in DOMAIN steps : steps[i] = "audit"
Entered(c, log) == c \in log.log \/ log.error

AuditKept(c, row, log) ==
    /\ row.pc = "after" /\ HasAudit(Aftermath(row.op)) => HasAudit(row.rest) \/ Entered(c, log)
    /\ row.pc = "done" /\ row.reply = "ok" /\ HasAudit(Aftermath(row.op)) => Entered(c, log)

(* A waiting call is read again no later than until; it has not yet read at *)
(* all, or whatever was decided was decided after it last read.             *)
RowViewer(row) == IF IsDevice(row.as) THEN UserOf[row.as] ELSE NoUser

WaitKept(row, moments, time) ==
    /\ row.pc = "waiting" =>
          /\ row.op = "wait"
          /\ time <= row.until /\ row.until <= time + 1 /\ time <= row.deadline
          /\ \/ row.until = time /\ row.until < row.deadline
             \/ \A t \in moments[row.on][RowViewer(row)] : t + 1 >= row.until
    /\ row.pc = "done" /\ row.reply = "timed_out" =>
          /\ row.op = "wait" /\ row.deadline <= time
          /\ \A t \in moments[row.on][RowViewer(row)] : t + 1 >= row.deadline

RowGood(c, row, log, moments, time) ==
    /\ row \in CallRow
    /\ row.op \in RequestOps => row.on \in Reqs
    /\ AuditKept(c, row, log)
    /\ WaitKept(row, moments, time)

CallsGood == call \in [Calls -> CallRow] /\ \A c \in Calls : RowGood(c, call[c], audit, settled, now)

(* What a viewer sees as open has no time of decision. *)
Open == {"pending", "absent"}
TablesGood ==
    /\ now \in Nat /\ audit \in AuditRow
    /\ request = [r \in Reqs |-> request[r]]
    /\ settled \in [Reqs -> [Viewers -> SUBSET Nat]]
    /\ \A r \in Reqs, v \in Viewers : View(request[r], r, v) \in Open => settled[r][v] = {}

AccessInv == CallsGood /\ TablesGood

LEMMA RowViewerIsViewer ==
    ASSUME NEW row PROVE RowViewer(row) \in Viewers
BY DEF RowViewer, Viewers, Users, IsDevice

LEMMA IdleIsGood ==
    ASSUME NEW c \in Calls, NEW log, NEW moments, NEW time
    PROVE  /\ RowGood(c, Idle, log, moments, time)
           /\ RowGood(c, [Idle EXCEPT !.pc = "gone"], log, moments, time)
<1>1. <<>> \in Seq(Steps) /\ 0 \in Nat
  OBVIOUS
<1>2. Idle \in CallRow
  BY <1>1 DEF Idle, CallRow
<1>3. [Idle EXCEPT !.pc = "gone"] \in CallRow
  BY <1>2 DEF CallRow
<1> QED
  BY <1>2, <1>3 DEF Idle, RowGood, AuditKept, WaitKept, RequestOps

(* What may happen to the tables while other calls are under way: the log   *)
(* keeps its entries and its error, and nothing is decided before now.      *)
LogGrows == audit.log \subseteq audit'.log /\ (audit.error => audit'.error)
DecidedNow ==
    \A r \in Reqs, v \in Viewers : \A t \in settled'[r][v] : t \in settled[r][v] \/ t = now

(* One call moves, and the others stay good. *)
LEMMA OneCallMoves ==
    ASSUME AccessInv, LogGrows, DecidedNow, UNCHANGED now, NEW c \in Calls, NEW row,
           call' = [call EXCEPT ![c] = row], RowGood(c, row, audit', settled', now)
    PROVE  CallsGood'
<1>1. ASSUME NEW d \in Calls PROVE RowGood(d, call'[d], audit', settled', now')
  <2>1. CASE d = c
    BY <2>1 DEF AccessInv, CallsGood
  <2>2. CASE d # c
    <3> DEFINE other == call[d]
    <3>1. call'[d] = other /\ RowGood(d, other, audit, settled, now)
      BY <2>2 DEF AccessInv, CallsGood
    <3> HIDE DEF other
    <3>2. AuditKept(d, other, audit')
      BY <3>1 DEF RowGood, AuditKept, Entered, LogGrows
    <3>3. RowViewer(other) \in Viewers
      BY RowViewerIsViewer
    <3>4. WaitKept(other, settled', now)
      <4>1. other.until \in Nat /\ other.deadline \in Nat /\ now \in Nat
        BY <3>1 DEF RowGood, CallRow, AccessInv, TablesGood
      <4>2. other.op = "wait" => other.on \in Reqs
        BY <3>1 DEF RowGood, RequestOps
      <4>3. \A t \in settled'[other.on][RowViewer(other)] :
                other.op = "wait" => t \in settled[other.on][RowViewer(other)] \/ t = now
        BY <3>3, <4>2 DEF DecidedNow
      <4> QED
        BY <3>1, <4>1, <4>2, <4>3 DEF RowGood, WaitKept
    <3> QED
      BY <3>1, <3>2, <3>4 DEF RowGood
  <2> QED
    BY <2>1, <2>2
<1>2. call' \in [Calls -> CallRow]
  BY DEF AccessInv, CallsGood, RowGood
<1> QED
  BY <1>1, <1>2 DEF CallsGood

(* The moves of one call. *)
MovedRow(row, pc) == [row EXCEPT !.pc = pc]
ReplyRow(row, reply) == [row EXCEPT !.pc = "done", !.reply = reply, !.until = 0]
DoneRow(row, rest) == [row EXCEPT !.pc = "after", !.rest = rest]

LEMMA CallMoves ==
    ASSUME AccessInv, NEW c \in Calls
    PROVE  /\ \A pc : Goes(c, pc) => call' = [call EXCEPT ![c] = MovedRow(call[c], pc)]
           /\ \A reply : Replies(c, reply) => call' = [call EXCEPT ![c] = ReplyRow(call[c], reply)]
           /\ \A rest : Done(c, rest) => call' = [call EXCEPT ![c] = DoneRow(call[c], rest)]
BY DEF AccessInv, CallsGood, Goes, Replies, Done, MovedRow, ReplyRow, DoneRow

LEMMA MovedIsGood ==
    ASSUME NEW c, NEW row, NEW log, NEW moments, NEW time,
           row \in CallRow, row.op \in RequestOps => row.on \in Reqs, NEW pc \in {"check", "commit"}
    PROVE  RowGood(c, MovedRow(row, pc), log, moments, time)
<1>1. MovedRow(row, pc) \in CallRow
  BY DEF MovedRow, CallRow
<1>2. MovedRow(row, pc).pc = pc /\ MovedRow(row, pc).op = row.op /\ MovedRow(row, pc).on = row.on
  BY DEF MovedRow, CallRow
<1> QED
  BY <1>1, <1>2 DEF RowGood, AuditKept, WaitKept

LEMMA ReplyIsGood ==
    ASSUME NEW c, NEW row, NEW log, NEW moments, NEW time,
           row \in CallRow, row.op \in RequestOps => row.on \in Reqs,
           NEW reply \in {"refused", "answered"}
    PROVE  RowGood(c, ReplyRow(row, reply), log, moments, time)
<1>0. 0 \in Nat
  OBVIOUS
<1>1. ReplyRow(row, reply) \in CallRow
  BY <1>0 DEF ReplyRow, CallRow
<1>2. /\ ReplyRow(row, reply).pc = "done" /\ ReplyRow(row, reply).reply = reply
      /\ ReplyRow(row, reply).op = row.op /\ ReplyRow(row, reply).on = row.on
  BY DEF ReplyRow, CallRow
<1> QED
  BY <1>1, <1>2 DEF RowGood, AuditKept, WaitKept

LEMMA AftermathIsSteps ==
    ASSUME NEW op PROVE Aftermath(op) \in Seq(Steps) /\ <<"audit">> \in Seq(Steps)
<1>1. /\ <<"audit">> \in Seq(Steps) /\ <<"send", "audit">> \in Seq(Steps)
      /\ <<"send">> \in Seq(Steps) /\ <<>> \in Seq(Steps) /\ <<"audit", "send">> \in Seq(Steps)
  BY DEF Steps
<1>2. Aftermath(op) \in {<<"audit">>, <<"send", "audit">>, <<"send">>, <<>>, <<"audit", "send">>}
  BY DEF Aftermath
<1> QED
  BY <1>1, <1>2

LEMMA DoneIsGood ==
    ASSUME NEW c, NEW row, NEW log, NEW moments, NEW time,
           row \in CallRow, row.op \in RequestOps => row.on \in Reqs,
           NEW rest \in Seq(Steps), HasAudit(Aftermath(row.op)) => HasAudit(rest) \/ Entered(c, log)
    PROVE  RowGood(c, DoneRow(row, rest), log, moments, time)
<1>1. DoneRow(row, rest) \in CallRow
  BY DEF DoneRow, CallRow
<1>2. /\ DoneRow(row, rest).pc = "after" /\ DoneRow(row, rest).rest = rest
      /\ DoneRow(row, rest).op = row.op /\ DoneRow(row, rest).on = row.on
  BY DEF DoneRow, CallRow
<1> QED
  BY <1>1, <1>2 DEF RowGood, AuditKept, WaitKept

(* A step that is not the audit leaves the audit to be done. *)
LEMMA TailKeepsAudit ==
    ASSUME NEW steps \in Seq(Steps), steps # <<>>
    PROVE  /\ Tail(steps) \in Seq(Steps)
           /\ Head(steps) # "audit" /\ HasAudit(steps) => HasAudit(Tail(steps))
<1>1. Tail(steps) \in Seq(Steps) /\ Len(Tail(steps)) = Len(steps) - 1
      /\ \A i \in 1..Len(Tail(steps)) : Tail(steps)[i] = steps[i + 1]
  OBVIOUS
<1>2. ASSUME Head(steps) # "audit", NEW i \in DOMAIN steps, steps[i] = "audit"
      PROVE  HasAudit(Tail(steps))
  <2>1. i \in 1..Len(steps) /\ i # 1
    BY <1>2
  <2>2. i - 1 \in DOMAIN Tail(steps) /\ Tail(steps)[i - 1] = "audit"
    BY <1>1, <1>2, <2>1
  <2> QED
    BY <2>2 DEF HasAudit
<1> QED
  BY <1>1, <1>2 DEF HasAudit

(* A written row settles, for each viewer, no earlier than now. *)
LEMMA WriteKeepsTables ==
    ASSUME AccessInv, NEW r \in Reqs, NEW row, Write(r, row), UNCHANGED <<audit, now>>
    PROVE  TablesGood' /\ DecidedNow /\ LogGrows
<1> DEFINE kept == [v \in Viewers |-> IF View(row, r, v) \in Open THEN {}
                                      ELSE IF settled[r][v] = {} THEN {now} ELSE settled[r][v]]
<1>1. settled' = [settled EXCEPT ![r] = kept] /\ request' = [request EXCEPT ![r] = row]
  BY DEF Write, Open
<1>2. now \in Nat /\ settled \in [Reqs -> [Viewers -> SUBSET Nat]] /\ request = [q \in Reqs |-> request[q]]
  BY DEF AccessInv, TablesGood
<1>3. kept \in [Viewers -> SUBSET Nat]
  BY <1>2
<1>4. \A v \in Viewers : /\ View(row, r, v) \in Open => kept[v] = {}
                         /\ \A t \in kept[v] : t \in settled[r][v] \/ t = now
  OBVIOUS
<1> HIDE DEF kept
<1>5. /\ \A q \in Reqs : settled'[q] = IF q = r THEN kept ELSE settled[q]
      /\ \A q \in Reqs : request'[q] = IF q = r THEN row ELSE request[q]
      /\ settled' \in [Reqs -> [Viewers -> SUBSET Nat]] /\ request' = [q \in Reqs |-> request'[q]]
  BY <1>1, <1>2, <1>3
<1>6. DecidedNow
  BY <1>4, <1>5 DEF DecidedNow
<1>7. \A q \in Reqs, v \in Viewers : View(request'[q], q, v) \in Open => settled'[q][v] = {}
  BY <1>4, <1>5 DEF AccessInv, TablesGood
<1> QED
  BY <1>2, <1>5, <1>6, <1>7 DEF TablesGood, AccessInv, LogGrows

LEMMA StillTables ==
    ASSUME AccessInv, UNCHANGED <<request, settled, audit, now>>
    PROVE  TablesGood' /\ DecidedNow /\ LogGrows
<1>1. TablesGood'
  BY DEF AccessInv, TablesGood
<1> QED
  BY <1>1 DEF DecidedNow, LogGrows

(* The steps of a call up to its commit. *)
LEMMA EarlyStepsKeepInv ==
    ASSUME AccessInv, NEW c \in Calls,
           \/ \E o \in Offers[c] : CallArrives(c, o)
           \/ Authenticates(c) \/ ChecksCancel(c) \/ ChecksWait(c)
    PROVE  AccessInv'
<1> DEFINE row == call[c]
<1>0. row \in CallRow /\ (row.op \in RequestOps => row.on \in Reqs) /\ now \in Nat
  BY DEF AccessInv, CallsGood, RowGood, TablesGood
<1>1. TablesGood' /\ DecidedNow /\ LogGrows /\ UNCHANGED now
  <2>1. UNCHANGED <<request, settled, audit, now>>
    BY DEF CallArrives, Authenticates, ChecksCancel, ChecksWait
  <2> QED
    BY <2>1, StillTables
<1>2. ASSUME NEW pc \in {"check", "commit"}, Goes(c, pc) PROVE AccessInv'
  <2>1. RowGood(c, MovedRow(row, pc), audit', settled', now)
    BY <1>0, MovedIsGood
  <2>2. call' = [call EXCEPT ![c] = MovedRow(row, pc)]
    BY <1>2, CallMoves
  <2> QED
    BY <1>1, <2>1, <2>2, OneCallMoves DEF AccessInv
<1>3. ASSUME Replies(c, "refused") PROVE AccessInv'
  <2>1. RowGood(c, ReplyRow(row, "refused"), audit', settled', now)
    BY <1>0, ReplyIsGood
  <2>2. call' = [call EXCEPT ![c] = ReplyRow(row, "refused")]
    BY <1>3, CallMoves
  <2> QED
    BY <1>1, <2>1, <2>2, OneCallMoves DEF AccessInv
<1>4. CASE \E o \in Offers[c] : CallArrives(c, o)
  <2>1. PICK o \in Offers[c] : CallArrives(c, o)
    BY <1>4
  <2> DEFINE pc == IF o.op \in {"enroll", "expire"} THEN "commit" ELSE "arrived"
             new == [Idle EXCEPT !.op = o.op, !.as = o.as, !.on = o.on, !.pc = pc]
  <2>2. call' = [call EXCEPT ![c] = new]
    BY <2>1 DEF CallArrives
  <2>3. o.op \in Offered /\ o.as \in Tokens \cup {Admin, Server, NoUser} /\ o.on \in Reqs \cup Tokens
        /\ (o.op \in RequestOps => o.on \in Reqs)
    BY AccessAssumption DEF Offered
  <2>4. pc \in {"commit", "arrived"}
    OBVIOUS
  <2> HIDE DEF pc
  <2>5. new \in CallRow
    <3>1. Idle \in CallRow
      BY IdleIsGood DEF RowGood
    <3> QED
      BY <2>3, <2>4, <3>1 DEF CallRow
  <2>6. new.pc = pc /\ new.op = o.op /\ new.on = o.on
    BY DEF Idle
  <2> HIDE DEF new
  <2>7. RowGood(c, new, audit', settled', now)
    BY <2>3, <2>4, <2>5, <2>6 DEF RowGood, AuditKept, WaitKept
  <2> QED
    BY <1>1, <2>2, <2>7, OneCallMoves DEF AccessInv
<1>5. CASE Authenticates(c)
  BY <1>2, <1>3, <1>5 DEF Authenticates
<1>6. CASE ChecksCancel(c)
  BY <1>2, <1>3, <1>6 DEF ChecksCancel
<1>7. CASE ChecksWait(c)
  <2>1. CASE Replies(c, "refused")
    BY <1>3, <2>1
  <2>2. CASE call' = [call EXCEPT ![c].pc = "waiting", ![c].until = now, ![c].deadline = now + WaitFor]
    <3> DEFINE new == [row EXCEPT !.pc = "waiting", !.until = now, !.deadline = now + WaitFor]
    <3>1. call' = [call EXCEPT ![c] = new]
      BY <2>2 DEF AccessInv, CallsGood
    <3>2. WaitFor \in Nat /\ WaitFor > 0 /\ now + WaitFor \in Nat
      BY <1>0, AccessAssumption
    <3>3. new \in CallRow
      BY <1>0, <3>2 DEF CallRow
    <3>4. /\ new.pc = "waiting" /\ new.op = row.op /\ new.on = row.on
          /\ new.until = now /\ new.deadline = now + WaitFor
      BY <1>0 DEF CallRow
    <3>5. row.op = "wait"
      BY <1>7 DEF ChecksWait
    <3> HIDE DEF new
    <3>6. RowGood(c, new, audit', settled', now)
      BY <1>0, <3>2, <3>3, <3>4, <3>5 DEF RowGood, AuditKept, WaitKept
    <3> QED
      BY <1>1, <3>1, <3>6, OneCallMoves DEF AccessInv
  <2> QED
    BY <1>7, <2>1, <2>2 DEF ChecksWait
<1> QED
  BY <1>4, <1>5, <1>6, <1>7

(* The commits. *)
LEMMA CommitsKeepInv ==
    ASSUME AccessInv, NEW c \in Calls,
           \/ CommitsCreate(c) \/ CommitsClose(c) \/ CommitsDecision(c) \/ CommitsToken(c)
           \/ CommitsOther(c)
    PROVE  AccessInv'
<1> DEFINE row == call[c]
<1>0. row \in CallRow /\ (row.op \in RequestOps => row.on \in Reqs)
  BY DEF AccessInv, CallsGood, RowGood
<1>1. UNCHANGED <<audit, now>>
  BY DEF CommitsCreate, CommitsClose, CommitsDecision, CommitsToken, CommitsOther
<1>2. \/ UNCHANGED <<request, settled>>
      \/ \E new : row.op \in RequestOps /\ Write(row.on, new)
  <2>1. CASE CommitsCreate(c)
    BY <2>1 DEF CommitsCreate, RequestOps
  <2>2. CASE CommitsClose(c)
    BY <2>2 DEF CommitsClose, RequestOps
  <2>3. CASE CommitsDecision(c)
    BY <2>3 DEF CommitsDecision, RequestOps
  <2>4. CASE CommitsToken(c)
    BY <2>4 DEF CommitsToken
  <2>5. CASE CommitsOther(c)
    BY <2>5 DEF CommitsOther, RequestOps
  <2> QED
    BY <2>1, <2>2, <2>3, <2>4, <2>5
<1>3. TablesGood' /\ DecidedNow /\ LogGrows
  <2>1. CASE UNCHANGED <<request, settled>>
    BY <1>1, <2>1, StillTables
  <2>2. CASE \E new : row.op \in RequestOps /\ Write(row.on, new)
    BY <1>0, <1>1, <2>2, WriteKeepsTables
  <2> QED
    BY <1>2, <2>1, <2>2
<1>4. \/ Replies(c, "refused")
      \/ Done(c, Aftermath(row.op))
      \/ row.op = "create" /\ Done(c, <<"audit">>)
  <2>1. CASE CommitsCreate(c)
    <3>1. row.op = "create"
      BY <2>1 DEF CommitsCreate
    <3> QED
      BY <2>1, <3>1 DEF CommitsCreate
  <2>2. CASE CommitsClose(c)
    BY <2>2 DEF CommitsClose
  <2>3. CASE CommitsDecision(c)
    <3>1. row.op = "decide"
      BY <2>3 DEF CommitsDecision
    <3> QED
      BY <2>3, <3>1 DEF CommitsDecision
  <2>4. CASE CommitsToken(c)
    BY <2>4 DEF CommitsToken
  <2>5. CASE CommitsOther(c)
    BY <2>5 DEF CommitsOther
  <2> QED
    BY <2>1, <2>2, <2>3, <2>4, <2>5
<1>5. CASE Replies(c, "refused")
  <2>1. RowGood(c, ReplyRow(row, "refused"), audit', settled', now)
    BY <1>0, ReplyIsGood
  <2>2. call' = [call EXCEPT ![c] = ReplyRow(row, "refused")]
    BY <1>5, CallMoves
  <2> QED
    BY <1>1, <1>3, <2>1, <2>2, OneCallMoves DEF AccessInv
<1>6. CASE Done(c, Aftermath(row.op))
  <2>1. RowGood(c, DoneRow(row, Aftermath(row.op)), audit', settled', now)
    BY <1>0, AftermathIsSteps, DoneIsGood
  <2>2. call' = [call EXCEPT ![c] = DoneRow(row, Aftermath(row.op))]
    BY <1>6, CallMoves
  <2> QED
    BY <1>1, <1>3, <2>1, <2>2, OneCallMoves DEF AccessInv
<1>7. CASE Done(c, <<"audit">>)
  <2>1. HasAudit(<<"audit">>)
    BY DEF HasAudit
  <2>2. RowGood(c, DoneRow(row, <<"audit">>), audit', settled', now)
    BY <1>0, <2>1, AftermathIsSteps, DoneIsGood
  <2>3. call' = [call EXCEPT ![c] = DoneRow(row, <<"audit">>)]
    BY <1>7, CallMoves
  <2> QED
    BY <1>1, <1>3, <2>2, <2>3, OneCallMoves DEF AccessInv
<1> QED
  BY <1>4, <1>5, <1>6, <1>7

(* What follows the commit: the audit, the broadcast and the answer. *)
LEMMA LateStepsKeepInv ==
    ASSUME AccessInv, NEW c \in Calls, AuditsEntry(c) \/ AuditFails(c) \/ Sends(c) \/ Responds(c)
    PROVE  AccessInv'
<1> DEFINE row == call[c]
           left == Tail(row.rest)
<1>0. /\ row \in CallRow /\ (row.op \in RequestOps => row.on \in Reqs) /\ row.rest \in Seq(Steps)
      /\ AuditKept(c, row, audit) /\ audit \in AuditRow /\ row.pc = "after"
  BY DEF AccessInv, CallsGood, RowGood, TablesGood, CallRow, AuditsEntry, AuditFails, Sends, Responds, Reaches
<1>1. UNCHANGED <<request, settled, now>>
  BY DEF AuditsEntry, AuditFails, Sends, Responds
<1>2. ASSUME audit' \in AuditRow, LogGrows PROVE TablesGood' /\ DecidedNow
  BY <1>1, <1>2 DEF AccessInv, TablesGood, DecidedNow
<1>3. ASSUME Next1(c) PROVE call' = [call EXCEPT ![c] = DoneRow(row, left)]
  <2>1. DoneRow(row, left) = [row EXCEPT !.rest = left]
    BY <1>0 DEF DoneRow, CallRow
  <2>2. call' = [call EXCEPT ![c] = [row EXCEPT !.rest = left]]
    BY <1>3 DEF Next1, AccessInv, CallsGood
  <2> QED
    BY <2>1, <2>2
<1>4. ASSUME row.rest # <<>> PROVE left \in Seq(Steps)
  BY <1>0, <1>4, TailKeepsAudit
<1> HIDE DEF left
<1>5. ASSUME audit' \in AuditRow, LogGrows, Next1(c), Entered(c, audit'), row.rest # <<>> PROVE AccessInv'
  <2>1. RowGood(c, DoneRow(row, left), audit', settled', now)
    BY <1>0, <1>4, <1>5, DoneIsGood
  <2> QED
    BY <1>1, <1>2, <1>3, <1>5, <2>1, OneCallMoves DEF AccessInv
<1>6. CASE AuditsEntry(c)
  <2> DEFINE size == IF Rotates THEN 1 ELSE audit.size + 1
  <2>1. audit' = [audit EXCEPT !.log = audit.log \cup {c}, !.size = size, !.error = audit.error \/ FALSE]
    BY <1>6 DEF AuditsEntry, ErrorAfter
  <2>2. size \in Nat /\ audit.error \in BOOLEAN
    BY <1>0 DEF AuditRow
  <2> HIDE DEF size
  <2>3. /\ audit' \in AuditRow
        /\ c \in audit'.log /\ audit.log \subseteq audit'.log /\ audit'.error = audit.error
    BY <1>0, <2>1, <2>2 DEF AuditRow
  <2> QED
    BY <1>5, <1>6, <2>3 DEF AuditsEntry, Reaches, LogGrows, Entered
<1>7. CASE AuditFails(c)
  <2>1. audit' \in AuditRow /\ audit'.log = audit.log /\ audit'.error
    <3>1. \/ audit' = [audit EXCEPT !.error = audit.error \/ TRUE]
          \/ \E size \in Nat : audit' = [audit EXCEPT !.size = size, !.error = audit.error \/ TRUE]
          \/ \E gone \in BOOLEAN : audit' = [audit EXCEPT !.gone = gone, !.error = audit.error \/ TRUE]
      <4>1. (IF Rotates THEN 0 ELSE audit.size) \in Nat
        BY <1>0 DEF AuditRow
      <4> QED
        BY <1>7, <4>1 DEF AuditFails, ErrorAfter
    <3> QED
      BY <1>0, <3>1 DEF AuditRow
  <2> QED
    BY <1>5, <1>7, <2>1 DEF AuditFails, Reaches, LogGrows, Entered
<1>8. CASE Sends(c)
  <2>1. row.rest # <<>> /\ Head(row.rest) # "audit" /\ Next1(c) /\ UNCHANGED audit
    BY <1>8 DEF Sends, Reaches
  <2>2. HasAudit(Aftermath(row.op)) => HasAudit(left) \/ Entered(c, audit)
    BY <1>0, <2>1, TailKeepsAudit DEF AuditKept, left
  <2>3. RowGood(c, DoneRow(row, left), audit', settled', now)
    BY <1>0, <1>4, <2>1, <2>2, DoneIsGood
  <2>4. LogGrows
    BY <2>1 DEF LogGrows
  <2> QED
    BY <1>0, <1>1, <1>2, <1>3, <2>1, <2>3, <2>4, OneCallMoves DEF AccessInv
<1>9. CASE Responds(c)
  <2>1. row.rest = <<>> /\ UNCHANGED audit /\ Replies(c, "ok")
    BY <1>9 DEF Responds
  <2>2. ~HasAudit(row.rest)
    BY <2>1 DEF HasAudit
  <2> DEFINE new == ReplyRow(row, "ok")
  <2>3. 0 \in Nat
    OBVIOUS
  <2>4. new \in CallRow /\ new.pc = "done" /\ new.reply = "ok" /\ new.op = row.op /\ new.on = row.on
    BY <1>0, <2>3 DEF ReplyRow, CallRow
  <2>5. call' = [call EXCEPT ![c] = new]
    BY <2>1, CallMoves
  <2> HIDE DEF new
  <2>6. RowGood(c, new, audit', settled', now)
    BY <1>0, <2>1, <2>2, <2>4 DEF RowGood, AuditKept, WaitKept
  <2>7. LogGrows
    BY <2>1 DEF LogGrows
  <2> QED
    BY <1>0, <1>1, <1>2, <2>1, <2>5, <2>6, <2>7, OneCallMoves DEF AccessInv
<1> QED
  BY <1>6, <1>7, <1>8, <1>9

(* The long polls. *)
LEMMA WaitStepsKeepInv ==
    ASSUME AccessInv, NEW c \in Calls, WaitReads(c) \/ WaitTimesOut(c)
    PROVE  AccessInv'
<1> DEFINE row == call[c]
           seen == View(request[row.on], row.on, RowViewer(row))
<1>0. /\ row \in CallRow /\ row.on \in Reqs /\ row.pc = "waiting" /\ WaitKept(row, settled, now)
      /\ now \in Nat /\ row.until \in Nat /\ row.deadline \in Nat /\ row.op = "wait"
  BY DEF AccessInv, CallsGood, RowGood, TablesGood, CallRow, WaitKept, WaitReads, WaitTimesOut, RequestOps
<1>1. UNCHANGED <<request, settled, audit, now>> /\ TablesGood' /\ DecidedNow /\ LogGrows
  <2>1. UNCHANGED <<request, settled, audit, now>>
    BY DEF WaitReads, WaitTimesOut
  <2> QED
    BY <2>1, StillTables
<1>2. Seen(c) = seen
  BY DEF Seen, ViewerOf, RowViewer
<1>3. seen = "pending" => settled[row.on][RowViewer(row)] = {}
  BY <1>0, RowViewerIsViewer DEF AccessInv, TablesGood, Open
<1> HIDE DEF seen
<1>4. ASSUME NEW reply \in {"refused", "answered"}, Replies(c, reply) PROVE AccessInv'
  <2>1. RowGood(c, ReplyRow(row, reply), audit', settled', now)
    BY <1>0, ReplyIsGood
  <2>2. call' = [call EXCEPT ![c] = ReplyRow(row, reply)]
    BY <1>4, CallMoves
  <2> QED
    BY <1>1, <2>1, <2>2, OneCallMoves DEF AccessInv
<1>5. CASE WaitReads(c)
  <2>1. CASE seen = "pending"
    <3> DEFINE new == [row EXCEPT !.until = now + 1]
    <3>1. call' = [call EXCEPT ![c] = new]
      BY <1>2, <1>5, <2>1 DEF WaitReads, AccessInv, CallsGood
    <3>2. now + 1 \in Nat
      BY <1>0
    <3>3. new \in CallRow
      BY <1>0, <3>2 DEF CallRow
    <3>4. /\ new.pc = "waiting" /\ new.op = row.op /\ new.on = row.on /\ new.as = row.as
          /\ new.until = now + 1 /\ new.deadline = row.deadline
      BY <1>0 DEF CallRow
    <3> HIDE DEF new
    <3>5. RowViewer(new) = RowViewer(row)
      BY <3>4 DEF RowViewer
    <3>6. WaitKept(new, settled, now)
      BY <1>0, <1>3, <2>1, <3>4, <3>5 DEF WaitKept
    <3>7. RowGood(c, new, audit', settled', now)
      BY <1>0, <1>1, <3>3, <3>4, <3>6 DEF RowGood, AuditKept
    <3> QED
      BY <1>1, <3>1, <3>7, OneCallMoves DEF AccessInv
  <2>2. CASE seen # "pending"
    BY <1>2, <1>4, <1>5, <2>2 DEF WaitReads
  <2> QED
    BY <2>1, <2>2
<1>6. CASE WaitTimesOut(c)
  <2>1. CASE Replies(c, "refused")
    BY <1>4, <2>1
  <2>2. CASE Replies(c, "timed_out")
    <3> DEFINE new == ReplyRow(row, "timed_out")
    <3>0. 0 \in Nat
      OBVIOUS
    <3>1. call' = [call EXCEPT ![c] = new]
      BY <2>2, CallMoves
    <3>2. new \in CallRow
      BY <1>0, <3>0 DEF ReplyRow, CallRow
    <3>3. /\ new.pc = "done" /\ new.reply = "timed_out" /\ new.op = row.op /\ new.on = row.on
          /\ new.as = row.as /\ new.deadline = row.deadline
      BY <1>0 DEF ReplyRow, CallRow
    <3> HIDE DEF new
    <3>4. RowViewer(new) = RowViewer(row)
      BY <3>3 DEF RowViewer
    <3>5. now >= row.deadline
      BY <1>6 DEF WaitTimesOut
    <3>6. \A t \in settled[row.on][RowViewer(row)] : t \in Nat /\ t + 1 >= row.until
      <4>1. settled[row.on][RowViewer(row)] \subseteq Nat
        BY <1>0, RowViewerIsViewer DEF AccessInv, TablesGood
      <4> QED
        BY <1>0, <3>5, <4>1 DEF WaitKept
    <3>7. WaitKept(new, settled, now)
      BY <1>0, <3>3, <3>4, <3>5, <3>6 DEF WaitKept
    <3>8. RowGood(c, new, audit', settled', now)
      BY <1>0, <1>1, <3>2, <3>3, <3>7 DEF RowGood, AuditKept
    <3> QED
      BY <1>1, <3>1, <3>8, OneCallMoves DEF AccessInv
  <2> QED
    BY <1>6, <2>1, <2>2 DEF WaitTimesOut
<1> QED
  BY <1>5, <1>6

(* A dropped call leaves the log as it is, but perhaps without its file. *)
LEMMA DropKeepsInv ==
    ASSUME AccessInv, NEW c \in Calls, CallDropped(c)
    PROVE  AccessInv'
<1>1. call' = [call EXCEPT ![c] = [Idle EXCEPT !.pc = "gone"]] /\ UNCHANGED <<request, settled, now>>
  BY DEF CallDropped
<1>2. audit' \in AuditRow /\ LogGrows
  <2>1. audit \in AuditRow
    BY DEF AccessInv, TablesGood
  <2>2. audit' = audit \/ audit' = [audit EXCEPT !.gone = TRUE]
    BY DEF CallDropped
  <2> QED
    BY <2>1, <2>2 DEF AuditRow, LogGrows
<1>3. TablesGood' /\ DecidedNow
  BY <1>1, <1>2 DEF AccessInv, TablesGood, DecidedNow
<1> QED
  BY <1>1, <1>2, <1>3, IdleIsGood, OneCallMoves DEF AccessInv

(* A restart ends every call, so the error it forgets is nobody's gap. *)
LEMMA ServerRestartKeepsInv ==
    ASSUME AccessInv, ServerRestarts
    PROVE  AccessInv'
<1>1. audit' \in AuditRow
  <2>1. audit \in AuditRow
    BY DEF AccessInv, TablesGood
  <2> DEFINE size == IF audit.gone THEN 0 ELSE audit.size
  <2>2. audit' = [audit EXCEPT !.error = FALSE, !.gone = FALSE, !.size = size]
    BY DEF ServerRestarts
  <2>3. size \in Nat
    BY <2>1 DEF AuditRow
  <2> HIDE DEF size
  <2> QED
    BY <2>1, <2>2, <2>3 DEF AuditRow
<1>2. UNCHANGED <<request, settled, now>>
  BY DEF ServerRestarts
<1>3. TablesGood'
  BY <1>1, <1>2 DEF AccessInv, TablesGood
<1>4. call' = [c \in Calls |-> call'[c]] /\ \A c \in Calls : call'[c] \in {Idle, [Idle EXCEPT !.pc = "gone"]}
  BY DEF ServerRestarts
<1>5. \A c \in Calls : RowGood(c, call'[c], audit', settled', now')
  BY <1>4, IdleIsGood
<1>6. call' \in [Calls -> CallRow]
  BY <1>4, <1>5 DEF RowGood
<1> QED
  BY <1>3, <1>5, <1>6 DEF AccessInv, CallsGood

(* Time passes only when no timer of a waiting call is due. *)
LEMMA TimeKeepsInv ==
    ASSUME AccessInv, TimePasses
    PROVE  AccessInv'
<1>1. now' = now + 1 /\ UNCHANGED <<request, settled, call, audit>> /\ now \in Nat
  BY DEF TimePasses, AccessInv, TablesGood
<1>2. TablesGood'
  BY <1>1 DEF AccessInv, TablesGood
<1>3. ASSUME NEW c \in Calls PROVE RowGood(c, call[c], audit, settled, now + 1)
  <2> DEFINE row == call[c]
  <2>1. RowGood(c, row, audit, settled, now) /\ row.until \in Nat /\ row.deadline \in Nat
    BY DEF AccessInv, CallsGood, RowGood, CallRow
  <2>2. row.pc = "waiting" => row.deadline > now /\ ~(now >= row.until)
    BY DEF TimePasses, Wakes
  <2> HIDE DEF row
  <2>3. WaitKept(row, settled, now + 1)
    BY <1>1, <2>1, <2>2 DEF RowGood, WaitKept
  <2> QED
    BY <2>1, <2>3 DEF RowGood, row
<1> QED
  BY <1>1, <1>2, <1>3 DEF AccessInv, CallsGood

LEMMA AccessStepKeepsInv ==
    ASSUME AccessInv, [AccessNext]_accessVars
    PROVE  AccessInv'
<1>1. CASE UNCHANGED accessVars
  BY <1>1 DEF accessVars, AccessInv, CallsGood, TablesGood
<1>2. CASE \E c \in Calls :
             \/ \E o \in Offers[c] : CallArrives(c, o)
             \/ Authenticates(c) \/ ChecksCancel(c) \/ ChecksWait(c)
  BY <1>2, EarlyStepsKeepInv
<1>3. CASE \E c \in Calls :
             \/ CommitsCreate(c) \/ CommitsClose(c) \/ CommitsDecision(c) \/ CommitsToken(c)
             \/ CommitsOther(c)
  BY <1>3, CommitsKeepInv
<1>4. CASE \E c \in Calls : AuditsEntry(c) \/ AuditFails(c) \/ Sends(c) \/ Responds(c)
  BY <1>4, LateStepsKeepInv
<1>5. CASE \E c \in Calls : WaitReads(c) \/ WaitTimesOut(c) \/ CallDropped(c)
  BY <1>5, WaitStepsKeepInv, DropKeepsInv
<1> QED
  BY <1>1, <1>2, <1>3, <1>4, <1>5, ServerRestartKeepsInv, TimeKeepsInv DEF AccessNext

LEMMA AccessInvHolds == AccessSpec => []AccessInv
<1>1. AccessInit => AccessInv
  <2> SUFFICES ASSUME AccessInit PROVE AccessInv
    OBVIOUS
  <2>1. audit \in AuditRow /\ now \in Nat
    BY DEF AccessInit, AuditRow
  <2>2. TablesGood
    BY <2>1 DEF AccessInit, TablesGood
  <2>3. call = [c \in Calls |-> Idle]
    BY DEF AccessInit
  <2>4. \A c \in Calls : RowGood(c, Idle, audit, settled, now)
    BY IdleIsGood
  <2>5. CallsGood
    BY <2>3, <2>4 DEF CallsGood, RowGood
  <2> QED
    BY <2>2, <2>5 DEF AccessInv
<1>2. AccessInv /\ [AccessNext]_accessVars => AccessInv'
  BY AccessStepKeepsInv
<1> QED
  BY <1>1, <1>2, PTL DEF AccessSpec

(* For any calls, faults, rotations, hang-ups and restarts: a call that was *)
(* answered and whose handler audits is in the log, or the log reports an   *)
(* error until the server restarts.                                         *)
THEOREM AuditGapsStayVisible == AccessSpec => []AuditGapsAreVisible
<1>1. AccessInv => AuditGapsAreVisible
  BY DEF AccessInv, CallsGood, RowGood, AuditKept, Entered, HasAudit, AuditGapsAreVisible
<1> QED
  BY <1>1, AccessInvHolds, PTL

(* For any calls and any timeout of at least one poll interval, a long poll *)
(* that reports timed_out had nothing to report until its last interval,    *)
(* although the broadcast that should wake it may never be sent.            *)
THEOREM WaitsMissNothing == AccessSpec => []WaitsMissNoDecision
<1>1. AccessInv => WaitsMissNoDecision
  BY DEF AccessInv, CallsGood, RowGood, WaitKept, RowViewer, ViewerOf, WaitsMissNoDecision
<1> QED
  BY <1>1, AccessInvHolds, PTL
-----------------------------------------------------------------------------
(***************************************************************************)
(* The configuration file that shells share (ClientStore).                 *)
(***************************************************************************)
AllIds == Ids \cup {OldId[i] : i \in Ids}
Saving == {"merged", "copying", "backed"}

IsConfig(cfg) == cfg \in [profiles : {cfg.profiles}, creds : {cfg.creds}, sel : {cfg.sel}]
IsShell(s) ==
    s \in [pc : {s.pc}, own : {s.own}, base : {s.base}, next : {s.next},
           recovered : {s.recovered}, edited : {s.edited}]
IsFile(f) == f.there \in BOOLEAN /\ f.ok \in BOOLEAN /\ (f.ok => IsConfig(f.cfg))

(* Two configurations say the same about an id. *)
Agree(a, b, x) ==
    Entry(a.profiles, x) = Entry(b.profiles, x) /\ Entry(a.creds, x) = Entry(b.creds, x)

(* A shell's copy differs from its merge base only in what it edited. *)
ShellGood(s) ==
    /\ IsShell(s) /\ IsConfig(s.own) /\ IsConfig(s.base) /\ IsConfig(s.next)
    /\ s.recovered \in BOOLEAN
    /\ \A x \in AllIds : x \notin s.edited => Agree(s.base, s.own, x)

(* The copy that a save will back up is readable for as long as it lasts,   *)
(* and the file is damaged only over a whole backup.                        *)
FilesGood ==
    /\ IsFile(primary) /\ IsFile(backup)
    /\ ~primary.there => ~backup.there
    /\ primary.there /\ ~primary.ok => Readable(backup)

SaveGood(p) ==
    shell[p].pc \in Saving =>
        /\ holder = p
        /\ shell[p].pc = "merged" /\ ~shell[p].recovered /\ primary.there => primary.ok
        /\ shell[p].pc = "copying" => Readable(primary)
        /\ \A x \in AllIds : x \notin shell[p].edited => Agree(OnDisk, shell[p].next, x)

StoreInv ==
    /\ FilesGood
    /\ shell = [p \in Shells |-> shell[p]]
    /\ \A p \in Shells : ShellGood(shell[p]) /\ SaveGood(p)

(* merge_map takes from disk whatever this shell did not touch. *)
LEMMA MergeMapKeepsDisk ==
    ASSUME NEW base, NEW own, NEW disk, NEW x, Entry(base, x) = Entry(own, x)
    PROVE  Entry(MergeMap(base, own, disk), x) = Entry(disk, x)
<1> DEFINE removed == DOMAIN base \ DOMAIN own
           changed == {y \in DOMAIN own : y \notin DOMAIN base \/ base[y] # own[y]}
           top == [y \in changed |-> own[y]]
           rest == Without(disk, removed)
<1>1. x \notin removed /\ x \notin changed
  BY DEF Entry
<1>2. MergeMap(base, own, disk) = Overlay(top, rest)
  BY DEF MergeMap
<1>3. DOMAIN top = changed /\ DOMAIN rest = DOMAIN disk \ removed
      /\ \A y \in DOMAIN disk \ removed : rest[y] = disk[y]
  BY DEF Without
<1> HIDE DEF top, rest, removed, changed
<1>4. DOMAIN Overlay(top, rest) = changed \cup (DOMAIN disk \ removed)
      /\ (x \in DOMAIN rest => Overlay(top, rest)[x] = rest[x])
  BY <1>1, <1>3 DEF Overlay
<1> QED
  BY <1>1, <1>2, <1>3, <1>4 DEF Entry

LEMMA MergeKeepsDisk ==
    ASSUME NEW base, NEW own, NEW disk, NEW x, Agree(base, own, x)
    PROVE  Agree(disk, MergeConfig(base, own, disk), x) /\ IsConfig(MergeConfig(base, own, disk))
<1>1. /\ MergeConfig(base, own, disk).profiles = MergeMap(base.profiles, own.profiles, disk.profiles)
      /\ MergeConfig(base, own, disk).creds = MergeMap(base.creds, own.creds, disk.creds)
      /\ IsConfig(MergeConfig(base, own, disk))
  BY DEF MergeConfig, IsConfig
<1> QED
  BY <1>1, MergeMapKeepsDisk DEF Agree

LEMMA DefaultIsConfig == IsConfig(DefaultConfig)
BY DEF IsConfig, DefaultConfig

LEMMA OffIsGood == ShellGood(Off) /\ Off.pc = "off"
<1>1. /\ Off.pc = "off" /\ Off.own = DefaultConfig /\ Off.base = DefaultConfig
      /\ Off.next = DefaultConfig /\ Off.recovered = FALSE
  BY DEF Off
<1>2. IsShell(Off)
  BY DEF IsShell, Off
<1> QED
  BY <1>1, <1>2, DefaultIsConfig DEF ShellGood, Agree

(* The fallback of the selection touches neither profiles nor credentials. *)
LEMMA SelectedKeeps ==
    ASSUME NEW cfg, IsConfig(cfg)
    PROVE  /\ IsConfig(Selected(cfg))
           /\ Selected(cfg).profiles = cfg.profiles /\ Selected(cfg).creds = cfg.creds
<1>1. CASE cfg.sel \in DOMAIN cfg.profiles
  BY <1>1 DEF Selected
<1>2. CASE cfg.sel \notin DOMAIN cfg.profiles
  <2>1. PICK s : Selected(cfg) = [cfg EXCEPT !.sel = s]
    BY <1>2 DEF Selected
  <2> QED
    BY <2>1 DEF IsConfig
<1> QED
  BY <1>1, <1>2

(* The migration moves the profiles of old ids to new ones, and only those. *)
LEMMA MigrationKeeps ==
    ASSUME NEW cfg, IsConfig(cfg), NEW x \in AllIds,
           LET moved == {y \in DOMAIN cfg.profiles : y \notin Ids}
           IN  x \notin moved \cup {NewId(y) : y \in moved}
    PROVE  Agree(cfg, MigrateProfileIds(cfg), x)
<1> DEFINE old == cfg.profiles
           new == [i \in {NewId(y) : y \in DOMAIN old} |-> IF i \in DOMAIN old THEN old[i] ELSE old[OldId[i]]]
<1>1. PICK s : MigrateProfileIds(cfg) = [cfg EXCEPT !.profiles = new, !.sel = s]
  BY DEF MigrateProfileIds, IsConfig
<1> HIDE DEF new
<1>2. MigrateProfileIds(cfg).profiles = new /\ MigrateProfileIds(cfg).creds = cfg.creds
  BY <1>1 DEF IsConfig
<1>3. DOMAIN new = {NewId(y) : y \in DOMAIN old} /\ (x \in DOMAIN new /\ x \in DOMAIN old => new[x] = old[x])
  BY DEF new
<1>4. \A y \in Ids : NewId(y) = y
  BY DEF NewId
<1>5. x \in DOMAIN old <=> x \in DOMAIN new
  BY <1>3, <1>4
<1> QED
  BY <1>2, <1>3, <1>5 DEF Agree, Entry

(* One shell moves; a save of another shell is under way only under its lock. *)
LEMMA OneShellMoves ==
    ASSUME StoreInv, NEW p \in Shells, NEW s, shell' = [shell EXCEPT ![p] = s], ShellGood(s),
           FilesGood', SaveGood(p)', holder \notin {p, Nobody} => UNCHANGED <<holder, primary, backup>>
    PROVE  StoreInv'
<1>1. shell' = [q \in Shells |-> shell'[q]] /\ shell'[p] = s
      /\ \A q \in Shells : q # p => shell'[q] = shell[q]
  BY DEF StoreInv
<1>2. ASSUME NEW q \in Shells PROVE ShellGood(shell'[q])
  BY <1>1 DEF StoreInv
<1>3. ASSUME NEW q \in Shells, q # p PROVE SaveGood(q)'
  <2> SUFFICES ASSUME shell[q].pc \in Saving PROVE SaveGood(q)'
    BY <1>1, <1>3 DEF SaveGood
  <2>1. SaveGood(q) /\ holder = q
    BY <1>3 DEF StoreInv, SaveGood
  <2>2. UNCHANGED <<holder, primary, backup>> /\ shell'[q] = shell[q]
    BY <1>1, <1>3, <2>1, StoreAssumption
  <2>3. OnDisk' = OnDisk
    BY <2>2 DEF OnDisk
  <2> QED
    BY <2>1, <2>2, <2>3 DEF SaveGood, Readable
<1> QED
  BY <1>1, <1>2, <1>3 DEF StoreInv

(* The fields of a shell that is not saving after the step. *)
LEMMA IdleSavesAreGood ==
    ASSUME NEW p, NEW s, shell'[p] = s, s.pc \notin Saving
    PROVE  SaveGood(p)'
BY DEF SaveGood

LEMMA FilesStay ==
    ASSUME FilesGood, UNCHANGED <<primary, backup>>
    PROVE  FilesGood'
BY DEF FilesGood, IsFile, Readable

LEMMA StartKeepsStore ==
    ASSUME StoreInv, NEW p \in Shells, ShellStarts(p)
    PROVE  StoreInv'
<1> DEFINE recovered == primary.there /\ ~primary.ok
           cfg == IF recovered THEN backup.cfg
                  ELSE IF primary.there THEN primary.cfg ELSE DefaultConfig
           mig == MigrateProfileIds(cfg)
           moved == {x \in DOMAIN cfg.profiles : x \notin Ids}
           pc == IF moved = {} THEN "idle" ELSE "save"
           own == IF moved = {} THEN Selected(mig) ELSE mig
           edited == moved \cup {NewId(x) : x \in moved}
           s == [Off EXCEPT !.pc = pc, !.own = own, !.base = cfg, !.recovered = recovered,
                            !.edited = edited]
<1>1. shell' = [shell EXCEPT ![p] = s] /\ UNCHANGED <<primary, backup, holder>>
  BY DEF ShellStarts
<1>2. IsConfig(cfg) /\ recovered \in BOOLEAN
  <2>1. primary.there \in BOOLEAN /\ primary.ok \in BOOLEAN
    BY DEF StoreInv, FilesGood, IsFile
  <2>2. recovered => IsConfig(backup.cfg)
    BY DEF StoreInv, FilesGood, IsFile, Readable
  <2>3. primary.there /\ ~recovered => IsConfig(primary.cfg)
    BY <2>1 DEF StoreInv, FilesGood, IsFile
  <2>4. recovered \in BOOLEAN /\ (recovered => primary.there)
    BY <2>1
  <2> HIDE DEF recovered
  <2>6. \/ recovered /\ cfg = backup.cfg
        \/ primary.there /\ ~recovered /\ cfg = primary.cfg
        \/ cfg = DefaultConfig
    BY <2>1, <2>4
  <2> HIDE DEF cfg
  <2> QED
    BY <2>2, <2>3, <2>4, <2>6, DefaultIsConfig
<1>3. IsConfig(mig)
  <2>1. PICK profiles, sel : mig = [cfg EXCEPT !.profiles = profiles, !.sel = sel]
    BY DEF MigrateProfileIds
  <2> HIDE DEF cfg, mig
  <2> QED
    BY <1>2, <2>1 DEF IsConfig
<1>4. IsConfig(own) /\ own.profiles = mig.profiles /\ own.creds = mig.creds
  BY <1>3, SelectedKeeps
<1>5. \A x \in AllIds : x \notin edited => Agree(cfg, own, x)
  <2> HIDE DEF cfg
  <2>1. \A x \in AllIds : x \notin edited => Agree(cfg, mig, x)
    BY <1>2, MigrationKeeps
  <2> HIDE DEF mig, own, edited
  <2> QED
    BY <1>4, <2>1 DEF Agree
<1> HIDE DEF own, cfg, edited, recovered, mig, moved
<1>6. /\ s.pc = pc /\ s.own = own /\ s.base = cfg /\ s.next = DefaultConfig
      /\ s.recovered = recovered /\ s.edited = edited /\ IsShell(s)
  BY DEF Off, IsShell
<1>7. pc \notin Saving
  BY DEF Saving
<1> HIDE DEF s, pc
<1>8. ShellGood(s)
  BY <1>2, <1>4, <1>5, <1>6, DefaultIsConfig DEF ShellGood
<1>9. shell'[p] = s
  BY <1>1 DEF StoreInv
<1>10. FilesGood'
  BY <1>1, FilesStay DEF StoreInv
<1>11. SaveGood(p)'
  BY <1>6, <1>7, <1>9, IdleSavesAreGood
<1> QED
  BY <1>1, <1>8, <1>10, <1>11, OneShellMoves

(* An edit of a shell's own copy is confined to the ids it touches. *)
LEMMA EditKeepsStore ==
    ASSUME StoreInv, NEW p \in Shells, NEW own, NEW touched, Edits(p, own, touched), IsConfig(own),
           \A x \in AllIds : x \notin touched => Agree(shell[p].own, own, x)
    PROVE  StoreInv'
<1> DEFINE old == shell[p]
           edited == old.edited \cup touched
           s == [old EXCEPT !.own = own, !.pc = "save", !.edited = edited]
<1>0. ShellGood(old) /\ IsShell(old)
  BY DEF StoreInv, ShellGood
<1>1. shell' = [shell EXCEPT ![p] = s] /\ UNCHANGED <<primary, backup, holder>>
  BY DEF Edits, StoreInv
<1>2. /\ s.pc = "save" /\ s.own = own /\ s.base = old.base /\ s.next = old.next
      /\ s.recovered = old.recovered /\ s.edited = edited /\ IsShell(s)
  BY <1>0 DEF IsShell
<1>3. \A x \in AllIds : x \notin edited => Agree(old.base, own, x)
  BY <1>0 DEF ShellGood, Agree
<1>9. shell'[p] = s
  BY <1>1 DEF StoreInv
<1> HIDE DEF s, edited
<1>4. ShellGood(s)
  BY <1>0, <1>2, <1>3 DEF ShellGood
<1>5. FilesGood'
  BY <1>1, FilesStay DEF StoreInv
<1>6. SaveGood(p)'
  BY <1>2, <1>9, IdleSavesAreGood DEF Saving
<1> QED
  BY <1>1, <1>4, <1>5, <1>6, OneShellMoves

LEMMA EditsKeepStore ==
    ASSUME StoreInv, NEW p \in Shells, NEW i \in Ids,
           EnrollsProfile(p, i) \/ SelectsProfile(p, i) \/ ForgetsProfile(p, i)
    PROVE  StoreInv'
<1> DEFINE own == shell[p].own
<1>0. IsConfig(own)
  BY DEF StoreInv, ShellGood
<1>1. ASSUME NEW map, NEW value, NEW x, x # i PROVE Entry(With(map, i, value), x) = Entry(map, x)
  BY <1>1 DEF Entry, With, Overlay
<1>2. ASSUME NEW map, NEW keys, NEW x, x \notin keys PROVE Entry(Without(map, keys), x) = Entry(map, x)
  BY <1>2 DEF Entry, Without
<1>3. CASE EnrollsProfile(p, i)
  <2> DEFINE new == [profiles |-> With(own.profiles, i, [device |-> edits + 1, cred |-> i]),
                     creds |-> IF inFile THEN With(own.creds, i, edits + 1) ELSE own.creds,
                     sel |-> i]
  <2>1. Edits(p, new, {i})
    BY <1>3 DEF EnrollsProfile
  <2>2. IsConfig(new)
    BY DEF IsConfig
  <2>3. \A x \in AllIds : x \notin {i} => Agree(own, new, x)
    BY <1>1 DEF Agree
  <2> QED
    BY <2>1, <2>2, <2>3, EditKeepsStore
<1>4. CASE SelectsProfile(p, i)
  <2>1. Edits(p, [own EXCEPT !.sel = i], {})
    BY <1>4 DEF SelectsProfile
  <2>2. /\ IsConfig([own EXCEPT !.sel = i])
        /\ [own EXCEPT !.sel = i].profiles = own.profiles /\ [own EXCEPT !.sel = i].creds = own.creds
    BY <1>0 DEF IsConfig
  <2>3. \A x \in AllIds : x \notin {} => Agree(own, [own EXCEPT !.sel = i], x)
    BY <2>2 DEF Agree
  <2> QED
    BY <2>1, <2>2, <2>3, EditKeepsStore
<1>5. CASE ForgetsProfile(p, i)
  <2> DEFINE cred == own.profiles[i].cred
             cut == [own EXCEPT !.profiles = Without(own.profiles, {i}), !.creds = Without(own.creds, {cred})]
  <2>1. Edits(p, Selected(cut), {i, cred})
    BY <1>5 DEF ForgetsProfile, IsConfig
  <2>2. IsConfig(cut) /\ cut.profiles = Without(own.profiles, {i}) /\ cut.creds = Without(own.creds, {cred})
    BY <1>0 DEF IsConfig
  <2> HIDE DEF cut, cred
  <2>3. /\ IsConfig(Selected(cut)) /\ Selected(cut).profiles = cut.profiles
        /\ Selected(cut).creds = cut.creds
    BY <2>2, SelectedKeeps
  <2>4. \A x \in AllIds : x \notin {i, cred} => Agree(own, Selected(cut), x)
    BY <1>2, <2>2, <2>3 DEF Agree
  <2> QED
    BY <2>1, <2>3, <2>4, EditKeepsStore
<1> QED
  BY <1>3, <1>4, <1>5

(* The save, step by step. *)
LEMMA LockKeepsStore ==
    ASSUME StoreInv, NEW p \in Shells, SaveLocks(p)
    PROVE  StoreInv'
<1> DEFINE old == shell[p]
           disk == IF ~Readable(primary) /\ old.recovered THEN backup ELSE primary
<1>0. ShellGood(old) /\ IsShell(old) /\ old.recovered \in BOOLEAN
  BY DEF StoreInv, ShellGood
<1>1. UNCHANGED <<primary, backup>> /\ FilesGood'
  BY FilesStay DEF SaveLocks, StoreInv
<1>2. CASE shell' = [shell EXCEPT ![p].pc = "idle"] /\ UNCHANGED holder
  <2> DEFINE s == [old EXCEPT !.pc = "idle"]
  <2>1. shell' = [shell EXCEPT ![p] = s] /\ shell'[p] = s
    BY <1>2 DEF StoreInv
  <2>2. /\ s.pc = "idle" /\ s.own = old.own /\ s.base = old.base /\ s.next = old.next
        /\ s.recovered = old.recovered /\ s.edited = old.edited /\ IsShell(s)
    BY <1>0 DEF IsShell
  <2> HIDE DEF s
  <2>3. ShellGood(s)
    BY <1>0, <2>2 DEF ShellGood
  <2>4. SaveGood(p)'
    BY <2>1, <2>2, IdleSavesAreGood DEF Saving
  <2> QED
    BY <1>1, <1>2, <2>1, <2>3, <2>4, OneShellMoves
<1>3. CASE ~(shell' = [shell EXCEPT ![p].pc = "idle"] /\ UNCHANGED holder)
  <2> DEFINE found == IF disk.there THEN disk.cfg ELSE DefaultConfig
             next == MergeConfig(old.base, old.own, found)
             s == [old EXCEPT !.pc = "merged", !.next = next]
  <2>1. (disk.there => disk.ok) /\ holder = Nobody /\ holder' = p
        /\ shell' = [shell EXCEPT ![p].pc = "merged", ![p].next = next]
    BY <1>3 DEF SaveLocks
  <2>2. shell' = [shell EXCEPT ![p] = s] /\ shell'[p] = s
    <3> HIDE DEF next
    <3> QED
      BY <2>1 DEF StoreInv
  <2>3. OnDisk = found
    <3>1. primary.there \in BOOLEAN /\ primary.ok \in BOOLEAN /\ backup.there \in BOOLEAN
          /\ backup.ok \in BOOLEAN /\ (~primary.there => ~backup.there)
      BY DEF StoreInv, FilesGood, IsFile
    <3>2. CASE Readable(primary)
      BY <3>1, <3>2 DEF OnDisk, Readable
    <3>3. CASE ~Readable(primary) /\ old.recovered
      BY <2>1, <3>1, <3>3 DEF OnDisk, Readable
    <3>4. CASE ~Readable(primary) /\ ~old.recovered
      BY <2>1, <3>1, <3>4 DEF OnDisk, Readable
    <3> QED
      BY <3>2, <3>3, <3>4
  <2>4. ~old.recovered /\ primary.there => primary.ok
    BY <1>0, <2>1 DEF Readable
  <2> HIDE DEF found, disk
  <2>5. /\ s.pc = "merged" /\ s.own = old.own /\ s.base = old.base /\ s.next = next
        /\ s.recovered = old.recovered /\ s.edited = old.edited /\ IsShell(s)
    BY <1>0 DEF IsShell
  <2>6. IsConfig(next)
    BY DEF MergeConfig, IsConfig
  <2>7. \A x \in AllIds : x \notin old.edited => Agree(found, next, x)
    BY <1>0, MergeKeepsDisk DEF ShellGood
  <2> HIDE DEF s, next
  <2>8. ShellGood(s)
    BY <1>0, <2>5, <2>6 DEF ShellGood
  <2>9. OnDisk' = found
    BY <1>1, <2>3 DEF OnDisk
  <2>10. SaveGood(p)'
    BY <1>1, <2>1, <2>2, <2>4, <2>5, <2>7, <2>9 DEF SaveGood
  <2> QED
    BY <1>1, <2>1, <2>2, <2>8, <2>10, OneShellMoves
<1> QED
  BY <1>2, <1>3

(* While the backup is written the configuration itself is readable, and    *)
(* what a save found on disk stays what is there.                           *)
LEMMA CopyKeepsStore ==
    ASSUME StoreInv, NEW p \in Shells, SaveCopies(p) \/ SaveCopied(p)
    PROVE  StoreInv'
<1> DEFINE old == shell[p]
           pc == IF SaveCopies(p) THEN "copying" ELSE "backed"
           s == [old EXCEPT !.pc = pc]
<1>0. ShellGood(old) /\ IsShell(old) /\ old.recovered \in BOOLEAN /\ SaveGood(p) /\ old.pc \in Saving
  BY DEF StoreInv, ShellGood, SaveCopies, SaveCopied, Saving
<1>1. Readable(primary) /\ holder = p /\ UNCHANGED <<primary, holder>>
  <2>1. CASE SaveCopies(p)
    BY <1>0, <2>1 DEF SaveGood, SaveCopies, BacksUp, Readable
  <2>2. CASE SaveCopied(p)
    BY <1>0, <2>2 DEF SaveGood, SaveCopied
  <2> QED
    BY <2>1, <2>2
<1>2. shell' = [shell EXCEPT ![p] = s] /\ shell'[p] = s
  BY DEF StoreInv, SaveCopies, SaveCopied
<1>3. FilesGood'
  <2>1. primary.there /\ primary.ok /\ IsFile(primary)
    BY <1>1 DEF Readable, StoreInv, FilesGood
  <2>2. backup' = [there |-> TRUE, ok |-> FALSE] \/ backup' = primary
    BY DEF SaveCopies, SaveCopied
  <2>3. IsFile([there |-> TRUE, ok |-> FALSE])
    BY DEF IsFile
  <2>4. IsFile(backup')
    BY <2>1, <2>2, <2>3
  <2> QED
    BY <1>1, <2>1, <2>4 DEF FilesGood, IsFile
<1>4. OnDisk = primary.cfg /\ OnDisk' = primary.cfg
  BY <1>1 DEF OnDisk, Readable
<1>5. pc \in {"copying", "backed"}
  OBVIOUS
<1> HIDE DEF pc
<1>6. /\ s.pc = pc /\ s.own = old.own /\ s.base = old.base /\ s.next = old.next
      /\ s.recovered = old.recovered /\ s.edited = old.edited /\ IsShell(s)
  BY <1>0 DEF IsShell
<1> HIDE DEF s
<1>7. ShellGood(s)
  BY <1>0, <1>6 DEF ShellGood
<1>8. Readable(primary')
  BY <1>1
<1>9. \A x \in AllIds : x \notin s.edited => Agree(OnDisk', s.next, x)
  BY <1>0, <1>4, <1>6 DEF SaveGood
<1>10. SaveGood(p)'
  BY <1>1, <1>2, <1>5, <1>6, <1>8, <1>9 DEF SaveGood, Readable
<1> QED
  BY <1>1, <1>2, <1>3, <1>7, <1>10, OneShellMoves

LEMMA RenameKeepsStore ==
    ASSUME StoreInv, NEW p \in Shells, SaveRenames(p)
    PROVE  StoreInv'
<1> DEFINE old == shell[p]
           own == Selected(old.own)
           s == [old EXCEPT !.pc = "idle", !.base = old.own, !.own = own, !.edited = {}]
<1>0. ShellGood(old) /\ IsShell(old) /\ SaveGood(p) /\ old.pc \in Saving
  BY DEF StoreInv, ShellGood, SaveRenames, Saving
<1>1. holder = p /\ primary' = File(old.next) /\ UNCHANGED backup
  BY <1>0 DEF SaveRenames, SaveGood
<1>2. shell' = [shell EXCEPT ![p] = s] /\ shell'[p] = s
  BY DEF StoreInv, SaveRenames, NextBase
<1>3. IsConfig(own) /\ own.profiles = old.own.profiles /\ own.creds = old.own.creds
  BY <1>0, SelectedKeeps DEF ShellGood
<1> HIDE DEF own
<1>4. /\ s.pc = "idle" /\ s.own = own /\ s.base = old.own /\ s.next = old.next
      /\ s.recovered = old.recovered /\ s.edited = {} /\ IsShell(s)
  BY <1>0 DEF IsShell
<1> HIDE DEF s
<1>5. ShellGood(s)
  BY <1>0, <1>3, <1>4 DEF ShellGood, Agree
<1>6. FilesGood'
  <2>1. primary'.there /\ primary'.ok /\ primary'.cfg = old.next /\ primary'.there \in BOOLEAN
        /\ primary'.ok \in BOOLEAN
    BY <1>1 DEF File
  <2> QED
    BY <1>0, <1>1, <2>1 DEF FilesGood, IsFile, StoreInv, ShellGood
<1>7. SaveGood(p)'
  BY <1>2, <1>4, IdleSavesAreGood DEF Saving
<1> QED
  BY <1>1, <1>2, <1>5, <1>6, <1>7, OneShellMoves

LEMMA KillKeepsStore ==
    ASSUME StoreInv, NEW p \in Shells, ShellKilled(p)
    PROVE  StoreInv'
<1>1. shell' = [shell EXCEPT ![p] = Off] /\ UNCHANGED <<primary, backup>>
      /\ (holder # p => holder' = holder)
  BY DEF ShellKilled
<1>2. shell'[p] = Off
  BY <1>1 DEF StoreInv
<1>3. SaveGood(p)'
  BY <1>2, OffIsGood, IdleSavesAreGood DEF Saving
<1>4. FilesGood'
  BY <1>1, FilesStay DEF StoreInv
<1> QED
  BY <1>1, <1>3, <1>4, OffIsGood, OneShellMoves

(* The file is damaged only while nobody saves. *)
LEMMA DamageKeepsStore ==
    ASSUME StoreInv, FileDamaged
    PROVE  StoreInv'
<1>1. primary' = [there |-> TRUE, ok |-> FALSE] /\ UNCHANGED <<backup, shell, holder>>
      /\ Readable(backup) /\ holder = Nobody
  BY DEF FileDamaged
<1>2. \A p \in Shells : shell[p].pc \notin Saving
  BY <1>1, StoreAssumption DEF StoreInv, SaveGood
<1>3. \A p \in Shells : SaveGood(p)'
  BY <1>1, <1>2 DEF SaveGood
<1>4. IsFile(primary') /\ primary'.there
  BY <1>1 DEF IsFile
<1>5. FilesGood'
  BY <1>1, <1>4 DEF StoreInv, FilesGood, IsFile, Readable
<1> QED
  BY <1>1, <1>3, <1>5 DEF StoreInv

LEMMA StoreStepKeepsInv ==
    ASSUME StoreInv, [StoreNext]_storeVars
    PROVE  StoreInv'
<1>1. CASE UNCHANGED storeVars
  <2>1. UNCHANGED <<primary, backup, holder, shell>>
    BY <1>1 DEF storeVars
  <2>2. FilesGood' /\ OnDisk' = OnDisk
    BY <2>1, FilesStay DEF StoreInv, OnDisk
  <2>3. \A p \in Shells : SaveGood(p)'
    BY <2>1, <2>2 DEF StoreInv, SaveGood
  <2> QED
    BY <2>1, <2>2, <2>3 DEF StoreInv
<1>2. CASE \E p \in Shells :
             \/ ShellStarts(p) \/ ShellKilled(p)
             \/ SaveLocks(p) \/ SaveCopies(p) \/ SaveCopied(p) \/ SaveRenames(p)
  BY <1>2, StartKeepsStore, KillKeepsStore, LockKeepsStore, CopyKeepsStore, RenameKeepsStore
<1>3. CASE \E p \in Shells, i \in Ids :
             EnrollsProfile(p, i) \/ SelectsProfile(p, i) \/ ForgetsProfile(p, i)
  BY <1>3, EditsKeepStore
<1>4. CASE FileDamaged
  BY <1>4, DamageKeepsStore
<1> QED
  BY <1>1, <1>2, <1>3, <1>4 DEF StoreNext

LEMMA StoreInitIsGood ==
    ASSUME StoreInit PROVE StoreInv
<1>1. IsFile(Absent) /\ Absent.there = FALSE
  BY DEF IsFile, Absent
<1>2. ASSUME NEW a, NEW b, NEW c
      PROVE  LET f == File([profiles |-> a, creds |-> b, sel |-> c]) IN IsFile(f) /\ f.there /\ f.ok
  BY DEF File, IsFile, IsConfig
<1>3. backup = Absent /\ shell = [p \in Shells |-> Off]
      /\ (primary = Absent
          \/ \E a, b, c : primary = File([profiles |-> a, creds |-> b, sel |-> c]))
  BY DEF StoreInit
<1>4. FilesGood
  BY <1>1, <1>2, <1>3 DEF FilesGood
<1>5. \A p \in Shells : ShellGood(shell[p]) /\ SaveGood(p)
  BY <1>3, OffIsGood DEF SaveGood, Saving
<1> QED
  BY <1>3, <1>4, <1>5 DEF StoreInv

LEMMA StoreInvHolds == StoreSpec => []StoreInv
<1>1. StoreInit => StoreInv
  BY StoreInitIsGood
<1>2. StoreInv /\ [StoreNext]_storeVars => StoreInv'
  BY StoreStepKeepsInv
<1> QED
  BY <1>1, <1>2, PTL DEF StoreSpec

(* For any number of shells, edits and kills between any two steps of their *)
(* saves, and with the file damaged once, a readable copy of the            *)
(* configuration remains.                                                   *)
THEOREM AConfigurationRemains == StoreSpec => []ConfigurationSurvives
<1>1. StoreInv => ConfigurationSurvives
  BY DEF StoreInv, FilesGood, IsFile, Readable, ConfigurationSurvives
<1> QED
  BY <1>1, StoreInvHolds, PTL

(* A save changes nothing on disk but what its own shell edited, for any    *)
(* number of shells that save, are killed and recover in any order.         *)
THEOREM SavesKeepOtherEdits == StoreSpec => OtherShellsEditsStay
<1>1. ASSUME StoreInv, [StoreNext]_storeVars
      PROVE  [primary'.ok =>
                \A x \in Ids \cup {OldId[i] : i \in Ids} :
                    \/ /\ Entry(OnDisk.profiles, x) = Entry(primary'.cfg.profiles, x)
                       /\ Entry(OnDisk.creds, x) = Entry(primary'.cfg.creds, x)
                    \/ \E p \in Shells : holder = p /\ x \in shell[p].edited]_primary
  <2>1. CASE UNCHANGED primary
    BY <2>1
  <2>2. CASE FileDamaged
    <3>1. primary'.ok = FALSE
      BY <2>2 DEF FileDamaged
    <3> QED
      BY <3>1
  <2>3. CASE \E p \in Shells : SaveRenames(p)
    <3>1. PICK p \in Shells : SaveRenames(p)
      BY <2>3
    <3>2. shell[p].pc \in Saving /\ primary' = File(shell[p].next)
      BY <3>1 DEF SaveRenames, Saving
    <3>0. SaveGood(p)
      BY <1>1 DEF StoreInv
    <3>3. holder = p /\ \A x \in AllIds : x \notin shell[p].edited => Agree(OnDisk, shell[p].next, x)
      BY <3>0, <3>2 DEF SaveGood
    <3>4. primary'.cfg = shell[p].next
      BY <3>2 DEF File
    <3> QED
      BY <3>3, <3>4 DEF Agree, AllIds
  <2>4. ASSUME NEW p \in Shells,
               ShellStarts(p) \/ ShellKilled(p) \/ SaveLocks(p) \/ SaveCopies(p) \/ SaveCopied(p)
        PROVE  UNCHANGED primary
    BY <2>4 DEF ShellStarts, ShellKilled, SaveLocks, SaveCopies, SaveCopied
  <2>5. ASSUME NEW p \in Shells, NEW i \in Ids,
               EnrollsProfile(p, i) \/ SelectsProfile(p, i) \/ ForgetsProfile(p, i)
        PROVE  UNCHANGED primary
    BY <2>5 DEF EnrollsProfile, SelectsProfile, ForgetsProfile, Edits
  <2>6. UNCHANGED storeVars => UNCHANGED primary
    BY DEF storeVars
  <2>7. UNCHANGED primary \/ FileDamaged \/ \E p \in Shells : SaveRenames(p)
    BY <1>1, <2>4, <2>5, <2>6 DEF StoreNext
  <2> QED
    BY <2>1, <2>2, <2>3, <2>7
<1> QED
  BY <1>1, StoreInvHolds, PTL DEF StoreSpec, OtherShellsEditsStay

(* Profiles and credentials.  Merging the two maps apart keeps them         *)
(* together only because, in every copy that shells and files hold, the     *)
(* credentials are exactly those of the profiles: then a shell has changed  *)
(* or removed one of them if and only if it changed or removed the other.   *)
Coherent(cfg) ==
    /\ IsConfig(cfg)
    /\ DOMAIN cfg.profiles \subseteq Ids
    /\ DOMAIN cfg.creds = DOMAIN cfg.profiles
    /\ \A x \in DOMAIN cfg.profiles : cfg.profiles[x] = [device |-> cfg.creds[x], cred |-> x]

FilesCoherent == (primary.ok => Coherent(primary.cfg)) /\ (backup.ok => Coherent(backup.cfg))
ShellCoherent(s) == Coherent(s.own) /\ Coherent(s.base) /\ Coherent(s.next)

CredInv ==
    /\ StoreInv
    /\ inFile /\ ~legacy => FilesCoherent /\ \A p \in Shells : ShellCoherent(shell[p])

LEMMA DefaultIsCoherent == Coherent(DefaultConfig)
BY DefaultIsConfig DEF Coherent, DefaultConfig, NoEntries

LEMMA OffIsCoherent == ShellCoherent(Off)
BY DefaultIsCoherent DEF ShellCoherent, Off

(* Configurations that hold the same maps are coherent together. *)
LEMMA SameMapsCoherent ==
    ASSUME NEW a, NEW b, Coherent(a), IsConfig(b), b.profiles = a.profiles, b.creds = a.creds
    PROVE  Coherent(b)
BY DEF Coherent

LEMMA MigrationIsCoherent ==
    ASSUME NEW cfg, Coherent(cfg)
    PROVE  Coherent(MigrateProfileIds(cfg))
<1> DEFINE old == cfg.profiles
           new == [i \in {NewId(y) : y \in DOMAIN old} |-> IF i \in DOMAIN old THEN old[i] ELSE old[OldId[i]]]
<1>0. IsConfig(cfg)
  BY DEF Coherent
<1>1. PICK s : MigrateProfileIds(cfg) = [cfg EXCEPT !.profiles = new, !.sel = s]
  BY <1>0 DEF MigrateProfileIds, IsConfig
<1> HIDE DEF new
<1>2. /\ MigrateProfileIds(cfg).profiles = new /\ MigrateProfileIds(cfg).creds = cfg.creds
      /\ IsConfig(MigrateProfileIds(cfg))
  BY <1>0, <1>1 DEF IsConfig
<1>3. {NewId(y) : y \in DOMAIN old} = DOMAIN old
  BY DEF NewId, Coherent
<1>4. DOMAIN new = DOMAIN old /\ \A x \in DOMAIN old : new[x] = old[x]
  BY <1>3 DEF new
<1> HIDE DEF old
<1> QED
  BY <1>2, <1>4 DEF Coherent, old

LEMMA MergeIsCoherent ==
    ASSUME NEW base, NEW own, NEW disk, Coherent(base), Coherent(own), Coherent(disk)
    PROVE  Coherent(MergeConfig(base, own, disk))
<1> DEFINE removed == DOMAIN base.profiles \ DOMAIN own.profiles
           changed == {x \in DOMAIN own.profiles :
                         x \notin DOMAIN base.profiles \/ base.profiles[x] # own.profiles[x]}
           merged == MergeConfig(base, own, disk)
<1>1. changed = {x \in DOMAIN own.creds : x \notin DOMAIN base.creds \/ base.creds[x] # own.creds[x]}
  <2>1. ASSUME NEW x \in DOMAIN own.profiles, x \in DOMAIN base.profiles
        PROVE  base.profiles[x] = own.profiles[x] <=> base.creds[x] = own.creds[x]
    <3>1. /\ base.profiles[x] = [device |-> base.creds[x], cred |-> x]
          /\ own.profiles[x] = [device |-> own.creds[x], cred |-> x]
      BY <2>1 DEF Coherent
    <3> QED
      BY <3>1
  <2>2. DOMAIN own.creds = DOMAIN own.profiles /\ DOMAIN base.creds = DOMAIN base.profiles
    BY DEF Coherent
  <2> QED
    BY <2>1, <2>2
<1>2. removed = DOMAIN base.creds \ DOMAIN own.creds
  BY DEF Coherent
<1>3. /\ merged.profiles = Overlay([x \in changed |-> own.profiles[x]], Without(disk.profiles, removed))
      /\ merged.creds = Overlay([x \in changed |-> own.creds[x]], Without(disk.creds, removed))
      /\ IsConfig(merged)
  <2>1. /\ merged.profiles = MergeMap(base.profiles, own.profiles, disk.profiles)
        /\ merged.creds = MergeMap(base.creds, own.creds, disk.creds) /\ IsConfig(merged)
    BY DEF MergeConfig, IsConfig
  <2>2. MergeMap(base.profiles, own.profiles, disk.profiles)
          = Overlay([x \in changed |-> own.profiles[x]], Without(disk.profiles, removed))
    BY DEF MergeMap
  <2> HIDE DEF changed, removed
  <2>3. MergeMap(base.creds, own.creds, disk.creds)
          = Overlay([x \in changed |-> own.creds[x]], Without(disk.creds, removed))
    BY <1>1, <1>2 DEF MergeMap
  <2> QED
    BY <2>1, <2>2, <2>3
<1>4. changed \subseteq DOMAIN own.profiles
  OBVIOUS
<1> HIDE DEF changed, removed, merged
<1>5. /\ DOMAIN merged.profiles = changed \cup (DOMAIN disk.profiles \ removed)
      /\ \A x \in changed : merged.profiles[x] = own.profiles[x]
      /\ \A x \in DOMAIN disk.profiles \ removed : x \notin changed => merged.profiles[x] = disk.profiles[x]
  BY <1>3 DEF Overlay, Without
<1>6. /\ DOMAIN merged.creds = changed \cup (DOMAIN disk.creds \ removed)
      /\ \A x \in changed : merged.creds[x] = own.creds[x]
      /\ \A x \in DOMAIN disk.creds \ removed : x \notin changed => merged.creds[x] = disk.creds[x]
  BY <1>3 DEF Overlay, Without
<1>7. DOMAIN merged.creds = DOMAIN merged.profiles /\ DOMAIN merged.profiles \subseteq Ids
  BY <1>4, <1>5, <1>6 DEF Coherent
<1>8. \A x \in DOMAIN merged.profiles : merged.profiles[x] = [device |-> merged.creds[x], cred |-> x]
  <2> SUFFICES ASSUME NEW x \in DOMAIN merged.profiles
               PROVE  merged.profiles[x] = [device |-> merged.creds[x], cred |-> x]
    OBVIOUS
  <2>1. CASE x \in changed
    BY <1>4, <1>5, <1>6, <2>1 DEF Coherent
  <2>2. CASE x \notin changed
    <3>1. x \in DOMAIN disk.profiles \ removed /\ DOMAIN disk.creds = DOMAIN disk.profiles
      BY <1>5, <2>2 DEF Coherent
    <3> QED
      BY <1>5, <1>6, <2>2, <3>1 DEF Coherent
  <2> QED
    BY <2>1, <2>2
<1> QED
  BY <1>3, <1>7, <1>8 DEF Coherent, merged

(* One shell moves in an installation without older profiles. *)
LEMMA OneShellCoherent ==
    ASSUME CredInv, inFile /\ ~legacy, NEW p \in Shells, NEW s, ShellCoherent(s),
           shell' = [shell EXCEPT ![p] = s], FilesCoherent'
    PROVE  FilesCoherent' /\ \A q \in Shells : ShellCoherent(shell'[q])
BY DEF CredInv, StoreInv

LEMMA FilesStayCoherent ==
    ASSUME FilesCoherent, UNCHANGED <<primary, backup>>
    PROVE  FilesCoherent'
BY DEF FilesCoherent

(* The edits of a user. *)
LEMMA EditsKeepCredentials ==
    ASSUME CredInv, inFile /\ ~legacy, NEW p \in Shells, NEW i \in Ids,
           EnrollsProfile(p, i) \/ SelectsProfile(p, i) \/ ForgetsProfile(p, i)
    PROVE  FilesCoherent' /\ \A q \in Shells : ShellCoherent(shell'[q])
<1> DEFINE old == shell[p]
           own == old.own
<1>0. Coherent(own) /\ ShellCoherent(old) /\ IsShell(old) /\ IsConfig(own)
  BY DEF CredInv, ShellCoherent, StoreInv, ShellGood
<1>1. FilesCoherent'
  <2>1. UNCHANGED <<primary, backup>>
    BY DEF EnrollsProfile, SelectsProfile, ForgetsProfile, Edits
  <2> QED
    BY <2>1, FilesStayCoherent DEF CredInv
<1>2. ASSUME NEW new, NEW touched, Edits(p, new, touched), Coherent(new)
      PROVE  FilesCoherent' /\ \A q \in Shells : ShellCoherent(shell'[q])
  <2> DEFINE edited == old.edited \cup touched
             s == [old EXCEPT !.own = new, !.pc = "save", !.edited = edited]
  <2>1. shell' = [shell EXCEPT ![p] = s]
    BY <1>2 DEF Edits, CredInv, StoreInv
  <2>2. s.own = new /\ s.base = old.base /\ s.next = old.next
    BY <1>0 DEF IsShell
  <2> HIDE DEF s
  <2>3. ShellCoherent(s)
    BY <1>0, <1>2, <2>2 DEF ShellCoherent
  <2> QED
    BY <1>1, <2>1, <2>3, OneShellCoherent
<1>3. CASE EnrollsProfile(p, i)
  <2> DEFINE device == edits + 1
             new == [profiles |-> With(own.profiles, i, [device |-> device, cred |-> i]),
                     creds |-> With(own.creds, i, device), sel |-> i]
  <2>1. Edits(p, new, {i})
    BY <1>3 DEF EnrollsProfile
  <2>2. IsConfig(new)
    BY DEF IsConfig
  <2> HIDE DEF device, own
  <2>3. /\ DOMAIN new.profiles = DOMAIN own.profiles \cup {i} /\ DOMAIN new.creds = DOMAIN own.creds \cup {i}
        /\ new.profiles[i] = [device |-> device, cred |-> i] /\ new.creds[i] = device
        /\ \A x \in DOMAIN own.profiles : x # i => new.profiles[x] = own.profiles[x]
        /\ \A x \in DOMAIN own.creds : x # i => new.creds[x] = own.creds[x]
    BY DEF With, Overlay
  <2> HIDE DEF new
  <2>4. Coherent(new)
    BY <1>0, <2>2, <2>3 DEF Coherent
  <2> QED
    BY <1>2, <2>1, <2>4
<1>4. CASE SelectsProfile(p, i)
  <2>1. Edits(p, [own EXCEPT !.sel = i], {})
    BY <1>4 DEF SelectsProfile
  <2>2. /\ IsConfig([own EXCEPT !.sel = i])
        /\ [own EXCEPT !.sel = i].profiles = own.profiles /\ [own EXCEPT !.sel = i].creds = own.creds
    BY <1>0 DEF IsConfig
  <2>3. Coherent([own EXCEPT !.sel = i])
    BY <1>0, <2>2, SameMapsCoherent
  <2> QED
    BY <1>2, <2>1, <2>3
<1>5. CASE ForgetsProfile(p, i)
  <2> DEFINE cred == own.profiles[i].cred
             cut == [own EXCEPT !.profiles = Without(own.profiles, {i}), !.creds = Without(own.creds, {cred})]
  <2>1. Edits(p, Selected(cut), {i, cred}) /\ i \in DOMAIN own.profiles
    BY <1>5 DEF ForgetsProfile
  <2>2. cred = i
    <3>1. own.profiles[i] = [device |-> own.creds[i], cred |-> i]
      BY <1>0, <2>1 DEF Coherent
    <3> QED
      BY <3>1
  <2>3. IsConfig(cut) /\ cut.profiles = Without(own.profiles, {i}) /\ cut.creds = Without(own.creds, {cred})
    BY <1>0 DEF IsConfig
  <2> HIDE DEF cut, cred, own
  <2>4. Coherent(cut)
    BY <1>0, <2>2, <2>3 DEF Coherent, Without
  <2>5. Coherent(Selected(cut))
    BY <2>3, <2>4, SelectedKeeps, SameMapsCoherent
  <2> QED
    BY <1>2, <2>1, <2>5
<1> QED
  BY <1>3, <1>4, <1>5

(* The starts, the kills and the steps of a save. *)
LEMMA SavesKeepCredentials ==
    ASSUME CredInv, inFile /\ ~legacy, NEW p \in Shells,
           \/ ShellStarts(p) \/ ShellKilled(p)
           \/ SaveLocks(p) \/ SaveCopies(p) \/ SaveCopied(p) \/ SaveRenames(p)
    PROVE  FilesCoherent' /\ \A q \in Shells : ShellCoherent(shell'[q])
<1> DEFINE old == shell[p]
<1>0. /\ ShellCoherent(old) /\ IsShell(old) /\ ShellGood(old) /\ FilesCoherent /\ FilesGood
      /\ SaveGood(p)
  BY DEF CredInv, ShellCoherent, StoreInv, ShellGood
<1>b. /\ primary.there \in BOOLEAN /\ primary.ok \in BOOLEAN
      /\ backup.there \in BOOLEAN /\ backup.ok \in BOOLEAN
  BY <1>0 DEF FilesGood, IsFile
<1>1. CASE ShellStarts(p)
  <2> DEFINE recovered == primary.there /\ ~primary.ok
             cfg == IF recovered THEN backup.cfg
                    ELSE IF primary.there THEN primary.cfg ELSE DefaultConfig
             mig == MigrateProfileIds(cfg)
             moved == {x \in DOMAIN cfg.profiles : x \notin Ids}
             pc == IF moved = {} THEN "idle" ELSE "save"
             own == IF moved = {} THEN Selected(mig) ELSE mig
             edited == moved \cup {NewId(x) : x \in moved}
             s == [Off EXCEPT !.pc = pc, !.own = own, !.base = cfg, !.recovered = recovered,
                              !.edited = edited]
  <2>1. shell' = [shell EXCEPT ![p] = s] /\ UNCHANGED <<primary, backup>>
    BY <1>1 DEF ShellStarts
  <2>2. Coherent(cfg)
    <3>1. recovered => Coherent(backup.cfg)
      BY <1>0 DEF FilesGood, FilesCoherent, Readable
    <3>2. primary.there /\ ~recovered => Coherent(primary.cfg)
      BY <1>0, <1>b DEF FilesCoherent
    <3> HIDE DEF recovered
    <3> QED
      BY <3>1, <3>2, DefaultIsCoherent
  <2> HIDE DEF cfg, recovered
  <2>3. Coherent(mig)
    BY <2>2, MigrationIsCoherent
  <2>4. Coherent(Selected(mig))
    BY <2>3, SelectedKeeps, SameMapsCoherent DEF Coherent
  <2>5. Coherent(own)
    BY <2>3, <2>4
  <2> HIDE DEF own, pc, moved, edited, mig
  <2>6. s.own = own /\ s.base = cfg /\ s.next = DefaultConfig
    BY DEF Off
  <2> HIDE DEF s
  <2>7. ShellCoherent(s)
    BY <2>2, <2>5, <2>6, DefaultIsCoherent DEF ShellCoherent
  <2>8. FilesCoherent'
    BY <1>0, <2>1, FilesStayCoherent
  <2> QED
    BY <2>1, <2>7, <2>8, OneShellCoherent
<1>2. CASE ShellKilled(p)
  <2>1. shell' = [shell EXCEPT ![p] = Off] /\ UNCHANGED <<primary, backup>>
    BY <1>2 DEF ShellKilled
  <2>2. FilesCoherent'
    BY <1>0, <2>1, FilesStayCoherent
  <2> QED
    BY <2>1, <2>2, OffIsCoherent, OneShellCoherent
<1>3. CASE SaveLocks(p)
  <2> DEFINE disk == IF ~Readable(primary) /\ old.recovered THEN backup ELSE primary
             found == IF disk.there THEN disk.cfg ELSE DefaultConfig
             next == MergeConfig(old.base, old.own, found)
  <2>0. UNCHANGED <<primary, backup>>
    BY <1>3 DEF SaveLocks
  <2>1. FilesCoherent'
    BY <1>0, <2>0, FilesStayCoherent
  <2>2. CASE shell' = [shell EXCEPT ![p].pc = "idle"]
    <3> DEFINE s == [old EXCEPT !.pc = "idle"]
    <3>1. shell' = [shell EXCEPT ![p] = s]
      BY <2>2 DEF CredInv, StoreInv
    <3>2. s.own = old.own /\ s.base = old.base /\ s.next = old.next
      BY <1>0 DEF IsShell
    <3> HIDE DEF s
    <3>3. ShellCoherent(s)
      BY <1>0, <3>2 DEF ShellCoherent
    <3> QED
      BY <2>1, <3>1, <3>3, OneShellCoherent
  <2>3. CASE (disk.there => disk.ok) /\ shell' = [shell EXCEPT ![p].pc = "merged", ![p].next = next]
    <3> DEFINE s == [old EXCEPT !.pc = "merged", !.next = next]
    <3>1. Coherent(found)
      <4>1. disk \in {primary, backup}
        OBVIOUS
      <4> HIDE DEF disk
      <4> QED
        BY <1>0, <2>3, <4>1, DefaultIsCoherent DEF FilesCoherent
    <3> HIDE DEF found, disk
    <3>2. Coherent(next)
      BY <1>0, <3>1, MergeIsCoherent DEF ShellCoherent
    <3> HIDE DEF next
    <3>3. shell' = [shell EXCEPT ![p] = s]
      BY <2>3 DEF CredInv, StoreInv
    <3>4. s.own = old.own /\ s.base = old.base /\ s.next = next
      BY <1>0 DEF IsShell
    <3> HIDE DEF s
    <3>5. ShellCoherent(s)
      BY <1>0, <3>2, <3>4 DEF ShellCoherent
    <3> QED
      BY <2>1, <3>3, <3>5, OneShellCoherent
  <2> QED
    BY <1>3, <2>2, <2>3 DEF SaveLocks
<1>4. CASE SaveCopies(p) \/ SaveCopied(p)
  <2> DEFINE pc == IF SaveCopies(p) THEN "copying" ELSE "backed"
             s == [old EXCEPT !.pc = pc]
  <2>1. shell' = [shell EXCEPT ![p] = s] /\ UNCHANGED primary
    BY <1>4 DEF CredInv, StoreInv, SaveCopies, SaveCopied
  <2>2. backup' = [there |-> TRUE, ok |-> FALSE] \/ backup' = primary
    BY <1>4 DEF SaveCopies, SaveCopied
  <2>3. FilesCoherent'
    BY <1>0, <2>1, <2>2 DEF FilesCoherent
  <2> HIDE DEF pc
  <2>4. s.own = old.own /\ s.base = old.base /\ s.next = old.next
    BY <1>0 DEF IsShell
  <2> HIDE DEF s
  <2>5. ShellCoherent(s)
    BY <1>0, <2>4 DEF ShellCoherent
  <2> QED
    BY <2>1, <2>3, <2>5, OneShellCoherent
<1>5. CASE SaveRenames(p)
  <2> DEFINE own == Selected(old.own)
             s == [old EXCEPT !.pc = "idle", !.base = old.own, !.own = own, !.edited = {}]
  <2>1. shell' = [shell EXCEPT ![p] = s] /\ primary' = File(old.next) /\ UNCHANGED backup
    BY <1>5 DEF CredInv, StoreInv, SaveRenames, NextBase
  <2>2. FilesCoherent'
    BY <1>0, <2>1 DEF FilesCoherent, File, ShellCoherent
  <2>3. Coherent(own)
    BY <1>0, SelectedKeeps, SameMapsCoherent DEF ShellCoherent, ShellGood
  <2> HIDE DEF own
  <2>4. s.own = own /\ s.base = old.own /\ s.next = old.next
    BY <1>0 DEF IsShell
  <2> HIDE DEF s
  <2>5. ShellCoherent(s)
    BY <1>0, <2>3, <2>4 DEF ShellCoherent
  <2> QED
    BY <2>1, <2>2, <2>5, OneShellCoherent
<1> QED
  BY <1>1, <1>2, <1>3, <1>4, <1>5

LEMMA CredStepKeepsInv ==
    ASSUME CredInv, [StoreNext]_storeVars
    PROVE  CredInv'
<1>1. StoreInv'
  BY StoreStepKeepsInv DEF CredInv
<1>2. UNCHANGED <<inFile, legacy>>
  <2>1. ASSUME NEW p \in Shells,
               \/ ShellStarts(p) \/ ShellKilled(p)
               \/ SaveLocks(p) \/ SaveCopies(p) \/ SaveCopied(p) \/ SaveRenames(p)
        PROVE  UNCHANGED <<inFile, legacy>>
    BY <2>1 DEF ShellStarts, ShellKilled, SaveLocks, SaveCopies, SaveCopied, SaveRenames
  <2>2. ASSUME NEW p \in Shells, NEW i \in Ids,
               EnrollsProfile(p, i) \/ SelectsProfile(p, i) \/ ForgetsProfile(p, i)
        PROVE  UNCHANGED <<inFile, legacy>>
    BY <2>2 DEF EnrollsProfile, SelectsProfile, ForgetsProfile, Edits
  <2>3. FileDamaged \/ UNCHANGED storeVars => UNCHANGED <<inFile, legacy>>
    BY DEF FileDamaged, storeVars
  <2> QED
    BY <2>1, <2>2, <2>3 DEF StoreNext
<1> SUFFICES ASSUME inFile /\ ~legacy
             PROVE  FilesCoherent' /\ \A q \in Shells : ShellCoherent(shell'[q])
  BY <1>1, <1>2 DEF CredInv
<1>3. CASE UNCHANGED storeVars
  BY <1>3 DEF storeVars, CredInv, FilesCoherent
<1>4. CASE FileDamaged
  <2>1. primary' = [there |-> TRUE, ok |-> FALSE] /\ UNCHANGED <<backup, shell>>
    BY <1>4 DEF FileDamaged
  <2> QED
    BY <2>1 DEF CredInv, FilesCoherent
<1>5. CASE \E p \in Shells, i \in Ids :
             EnrollsProfile(p, i) \/ SelectsProfile(p, i) \/ ForgetsProfile(p, i)
  BY <1>5, EditsKeepCredentials
<1>6. CASE \E p \in Shells :
             \/ ShellStarts(p) \/ ShellKilled(p)
             \/ SaveLocks(p) \/ SaveCopies(p) \/ SaveCopied(p) \/ SaveRenames(p)
  BY <1>6, SavesKeepCredentials
<1> QED
  BY <1>3, <1>4, <1>5, <1>6 DEF StoreNext

(* With credentials in the file and no older release before, every profile  *)
(* on disk keeps the credentials of its own enrollment, for any number of   *)
(* shells, edits, failed saves and kills.                                   *)
THEOREM ProfilesStayWithCredentials == StoreSpec => []ProfilesKeepCredentials
<1>1. StoreInit => CredInv
  <2> SUFFICES ASSUME StoreInit PROVE CredInv
    OBVIOUS
  <2>1. StoreInv
    BY StoreInitIsGood
  <2>2. ~legacy => primary = Absent
    BY DEF StoreInit
  <2>3. backup = Absent /\ shell = [p \in Shells |-> Off]
    BY DEF StoreInit
  <2>4. Absent.ok = FALSE
    BY DEF Absent
  <2>5. ~legacy => FilesCoherent
    BY <2>2, <2>3, <2>4 DEF FilesCoherent
  <2>6. \A p \in Shells : ShellCoherent(shell[p])
    BY <2>3, OffIsCoherent
  <2> QED
    BY <2>1, <2>5, <2>6 DEF CredInv
<1>2. CredInv /\ [StoreNext]_storeVars => CredInv'
  BY CredStepKeepsInv
<1>3. CredInv => ProfilesKeepCredentials
  <2> SUFFICES ASSUME CredInv, inFile /\ ~legacy, Readable(primary), NEW x \in DOMAIN primary.cfg.profiles
               PROVE  Entry(primary.cfg.creds, primary.cfg.profiles[x].cred)
                        = <<primary.cfg.profiles[x].device>>
    BY DEF ProfilesKeepCredentials
  <2>1. Coherent(primary.cfg)
    BY DEF CredInv, FilesCoherent, Readable
  <2>2. /\ primary.cfg.profiles[x] = [device |-> primary.cfg.creds[x], cred |-> x]
        /\ x \in DOMAIN primary.cfg.creds
    BY <2>1 DEF Coherent
  <2>3. primary.cfg.profiles[x].cred = x /\ primary.cfg.profiles[x].device = primary.cfg.creds[x]
    BY <2>2
  <2> QED
    BY <2>2, <2>3 DEF Entry
<1> QED
  BY <1>1, <1>2, <1>3, PTL DEF StoreSpec

-----------------------------------------------------------------------------
(***************************************************************************)
(* What a decision's signature is evidence of (Evidence).  Once the server *)
(* has started every row has its salt and keeps it, so what a device, the  *)
(* server and the issuer derive from a row stays the same; each submission *)
(* has behind it a copy whose content reproduces the signed digest, and    *)
(* each recorded decision is what the signed payload says.                 *)
(***************************************************************************)
SaltsGood ==
    /\ starts \in Nat /\ salt \in [Cards -> Nat]
    /\ \A k \in Cards : Release[k] = "tagged" => salt[k] = 1
    /\ starts > 0 => \A k \in Cards : salt[k] # 0

IssuedGood ==
    /\ DOMAIN issued \subseteq Cards
    /\ \A k \in Cards : Release[k] # "current" => k \in DOMAIN issued
    /\ \A k \in DOMAIN issued :
          issued[k] = CreateResponse(k) /\ (Release[k] = "current" => starts > 0)

ReceivedCopy(k, d, socket) ==
    Contract(IF socket THEN SocketView(k, SignerUser[d]) ELSE HttpView(k, SignerUser[d]), d)

ViewGood ==
    view.device # Unset =>
        /\ starts > 0 /\ view.device \in Signers
        /\ \E k \in DOMAIN issued, socket \in BOOLEAN :
              view.copy = ReceivedCopy(k, view.device, socket)

(* The digest is the one of what the copy says.                             *)
SaysDigest(copy, digest) ==
    /\ copy.field \in BOOLEAN
    /\ digest = IF HasContext(copy) THEN ContextDigest(copy, copy.ctx.commitment, copy.ctx.tag)
                ELSE LineSnapshot(copy)

WasSigned(device, option, text, answer, digest, trail) ==
    \E s \in trail : /\ s.device = device /\ s.option = option
                     /\ s.text = text /\ s.answer = answer
                     /\ SaysDigest(s.copy, digest)

PostGood(p, known, trail) ==
    /\ p.card \in known /\ p.device \in Signers /\ p.option \in DOMAIN KindOf
    /\ p.text \in {"none", "note"}
    /\ WasSigned(p.device, p.option, p.text, p.answer, p.sig.digest, trail)

PayloadOf(x) ==
    SigningPayload(x.sig.version, x.id, x.sig.digest, x.option, x.device, "canonical",
                   x.text, x.answer)

DecisionFields == {"id", "option", "kind", "text", "answer", "user", "device", "sig"}

(* "row" is the request as the server reads it.                             *)
DecisionGood(x, k, u, row, trail) ==
    /\ DOMAIN x = DecisionFields /\ x.id = k /\ x.user = u /\ x.kind = KindOf[x.option] /\ x.option \in DOMAIN KindOf
    /\ x.device \in Signers /\ SignerUser[x.device] = u /\ x.sig.key = x.device
    /\ OptionOf(Row(k), x.option) # Unset /\ AnswerFits(Row(k), x.answer)
    /\ x.sig.version = IF Content[k].field THEN "d2" ELSE "d1"
    /\ x.sig.digest \in Candidates(row) /\ x.sig.bytes = PayloadOf(x)
    /\ WasSigned(x.device, x.option, x.text, x.answer, x.sig.digest, trail)

DecidedGood ==
    /\ DOMAIN decided = Cards
    /\ \A k \in Cards : \A u \in DOMAIN decided[k] :
          /\ starts > 0 /\ k \in DOMAIN issued
          /\ DecisionGood(decided[k][u], k, u, RequestFromRows(k), signed)
          /\ ~Content[k].perUser => \A v \in DOMAIN decided[k] : u = v

EvidenceInv ==
    /\ SaltsGood /\ IssuedGood /\ ViewGood /\ DecidedGood
    /\ \A p \in posts : PostGood(p, DOMAIN issued, signed)


(* The encoders never agree: a line snapshot lists the recipients, the      *)
(* structured digest a commitment to them, and the value digest a field.    *)
LEMMA EncodersDiffer ==
    ASSUME NEW w, NEW v, NEW c, NEW e, NEW t, NEW r
    PROVE  /\ LineSnapshot(w) # StructuredDigest(v, c, t)
           /\ LineSnapshot(w) # ValueDigest(v, c, t)
           /\ StructuredDigest(w, e, r) # ValueDigest(v, c, t)
<1>1. /\ DOMAIN LineSnapshot(w)[2] = {"id", "recips", "perUser", "body", "opts"}
      /\ DOMAIN StructuredDigest(v, c, t)[2] = {"id", "commitment", "perUser", "body", "extra", "opts"}
      /\ DOMAIN StructuredDigest(w, e, r)[2] = {"id", "commitment", "perUser", "body", "extra", "opts"}
      /\ DOMAIN ValueDigest(v, c, t)[2] =
            {"id", "commitment", "perUser", "body", "extra", "opts", "field"}
  BY DEF LineSnapshot, StructuredDigest, ValueDigest
<1>2. /\ "commitment" \notin {"id", "recips", "perUser", "body", "opts"}
      /\ "field" \notin {"id", "commitment", "perUser", "body", "extra", "opts"}
  OBVIOUS
<1> QED
  BY <1>1, <1>2

(* Equal digests of the tagged encoders say the same of both copies.        *)
LEMMA DigestsSayTheSame ==
    ASSUME NEW w, NEW v, w.field \in BOOLEAN, v.field \in BOOLEAN, NEW c, NEW e, NEW t, NEW r,
           ContextDigest(w, c, t) = ContextDigest(v, e, r)
    PROVE  /\ t = r /\ c = e /\ w.field = v.field /\ w.id = v.id /\ w.perUser = v.perUser
           /\ w.body = v.body /\ w.extra = v.extra /\ w.opts = v.opts
<1>1. w.field = v.field
  BY EncodersDiffer DEF ContextDigest
<1>2. CASE w.field
  <2>1. ValueDigest(w, c, t) = ValueDigest(v, e, r)
    BY <1>1, <1>2 DEF ContextDigest
  <2> QED
    BY <1>1, <2>1 DEF ValueDigest
<1>3. CASE ~w.field
  <2>1. StructuredDigest(w, c, t) = StructuredDigest(v, e, r)
    BY <1>1, <1>3 DEF ContextDigest
  <2> QED
    BY <1>1, <2>1 DEF StructuredDigest
<1> QED
  BY <1>2, <1>3

LEMMA CandidatesAre ==
    ASSUME NEW w, w.field \in BOOLEAN, NEW d
    PROVE  d \in Candidates(w) <=>
              \/ ~w.field /\ d = LineSnapshot(w)
              \/ /\ HasContext(w)
                 /\ \E t \in IF w.field THEN {"v2", "v3"} ELSE {"v1", "v2"} :
                        d = ContextDigest(w, w.ctx.commitment, t)
BY DEF Candidates

(* A digest that a copy reproduces and another admits covers both alike.    *)
LEMMA CoveredAlike ==
    ASSUME NEW copy, NEW w, w.field \in BOOLEAN, NEW digest, SaysDigest(copy, digest),
           digest \in Candidates(w)
    PROVE  Covered(copy, digest) = Covered(w, digest)
<1>1. \/ ~w.field /\ digest = LineSnapshot(w)
      \/ \E t : digest = ContextDigest(w, w.ctx.commitment, t)
  BY CandidatesAre
<1>2. copy.field \in BOOLEAN
  BY DEF SaysDigest
<1>3. \A v, x, c, t : LineSnapshot(v) # ContextDigest(x, c, t)
  BY EncodersDiffer DEF ContextDigest
<1>4. CASE HasContext(copy)
  <2>1. digest = ContextDigest(copy, copy.ctx.commitment, copy.ctx.tag)
    BY <1>4 DEF SaysDigest
  <2>2. digest # LineSnapshot(copy) /\ digest # LineSnapshot(w)
    BY <1>3, <2>1
  <2>3. PICK t : digest = ContextDigest(w, w.ctx.commitment, t)
    BY <1>1, <2>2
  <2>4. /\ copy.ctx.commitment = w.ctx.commitment /\ copy.field = w.field /\ copy.id = w.id
        /\ copy.perUser = w.perUser /\ copy.body = w.body /\ copy.extra = w.extra
        /\ copy.opts = w.opts
    <3>1. ContextDigest(copy, copy.ctx.commitment, copy.ctx.tag) = ContextDigest(w, w.ctx.commitment, t)
      BY <2>1, <2>3
    <3> QED
      BY <1>2, <3>1, DigestsSayTheSame
  <2> QED
    BY <2>2, <2>4 DEF Covered
<1>5. CASE ~HasContext(copy)
  <2>1. digest = LineSnapshot(copy)
    BY <1>5 DEF SaysDigest
  <2>2. digest = LineSnapshot(w)
    BY <1>1, <1>3, <2>1
  <2> QED
    BY <2>1, <2>2 DEF Covered
<1> QED
  BY <1>4, <1>5

-----------------------------------------------------------------------------
(***************************************************************************)
(* The copies.                                                             *)
(***************************************************************************)
HasContent(w, k) ==
    /\ w.id = k /\ w.perUser = Content[k].perUser /\ w.field = Content[k].field
    /\ w.opts = Content[k].opts /\ w.body = Content[k].body /\ w.extra = Content[k].extra

(* A context holds the digest of the row, under a tag of its encoder.       *)
ContextOf(w, k, tag) ==
    /\ HasContext(w) /\ w.ctx.tag = tag
    /\ w.ctx.commitment = RecipientsCommitment(Content[k].recips, salt[k])
    /\ w.ctx.digest = ContextDigest(Row(k), w.ctx.commitment, tag)

LEMMA SameContentSameDigest ==
    ASSUME NEW k, NEW w, NEW v, HasContent(w, k), HasContent(v, k)
    PROVE  /\ \A c, t : ContextDigest(w, c, t) = ContextDigest(v, c, t)
           /\ \A o : OptionOf(w, o) = OptionOf(v, o)
           /\ \A a : AnswerFits(w, a) = AnswerFits(v, a)
           /\ w.recips = v.recips => LineSnapshot(w) = LineSnapshot(v)
BY DEF HasContent, ContextDigest, ValueDigest, StructuredDigest, OptionOf, AnswerFits, LineSnapshot

CopyFields == {"id", "recips", "perUser", "field", "opts", "body", "extra", "digest", "ctx"}

LEMMA RowIsContent ==
    ASSUME NEW k
    PROVE  /\ DOMAIN Row(k) = CopyFields /\ HasContent(Row(k), k) /\ Row(k).recips = Content[k].recips
           /\ ~HasContext(Row(k)) /\ Row(k).digest = NoDigest
BY DEF Row, CopyFields, HasContent, HasContext, NoContext

LEMMA ContextIsAdded ==
    ASSUME NEW k, NEW tag \in {"v1", "v2", "v3"}, NEW c,
           c = RecipientsCommitment(Content[k].recips, salt[k])
    PROVE  LET w == WithContext(Row(k), c, tag)
           IN  /\ DOMAIN w = CopyFields /\ HasContent(w, k) /\ ContextOf(w, k, tag)
               /\ w.recips = Content[k].recips /\ w.digest = NoDigest
<1> DEFINE w == WithContext(Row(k), c, tag)
<1>1. /\ DOMAIN w = CopyFields /\ w.recips = Content[k].recips /\ w.digest = NoDigest
      /\ w.ctx = [tag |-> tag, commitment |-> c, digest |-> ContextDigest(Row(k), c, tag)]
      /\ w.id = Row(k).id /\ w.perUser = Row(k).perUser /\ w.field = Row(k).field
      /\ w.opts = Row(k).opts /\ w.body = Row(k).body /\ w.extra = Row(k).extra
  BY RowIsContent DEF WithContext, CopyFields
<1> HIDE DEF w
<1>2. HasContent(w, k)
  BY <1>1, RowIsContent DEF HasContent
<1>3. ContextOf(w, k, tag)
  BY <1>1 DEF ContextOf, HasContext
<1> QED
  BY <1>1, <1>2, <1>3 DEF w

LEMMA WireIsContent ==
    ASSUME NEW w, DOMAIN w = CopyFields, NEW private
    PROVE  LET v == ToWire(w, private)
           IN  /\ DOMAIN v = CopyFields /\ v.ctx = w.ctx /\ v.recips = w.recips
               /\ v.id = w.id /\ v.perUser = w.perUser /\ v.field = w.field /\ v.opts = w.opts
               /\ v.body = w.body /\ v.extra = w.extra
               /\ v.digest = IF private \/ w.field THEN w.digest ELSE LineSnapshot(w)
BY DEF ToWire, CopyFields

CurrentTag(k) == IF Content[k].field THEN "v2" ELSE "v1"

LEMMA RequestIsContent ==
    ASSUME NEW k
    PROVE  LET w == RequestFromRows(k)
           IN  /\ DOMAIN w = CopyFields /\ HasContent(w, k) /\ ContextOf(w, k, CurrentTag(k))
               /\ w.recips = Content[k].recips /\ w.digest = NoDigest
BY ContextIsAdded DEF RequestFromRows, CurrentTag


(* The create response, whichever release wrote it.                         *)
LEMMA ResponseIsContent ==
    ASSUME NEW k \in Cards, Release[k] = "tagged" => salt[k] = 1
    PROVE  LET w == CreateResponse(k)
           IN  /\ DOMAIN w = CopyFields /\ HasContent(w, k) /\ w.recips = Content[k].recips
               /\ Release[k] = "plain" =>
                     ~HasContext(w) /\ ~w.field /\ w.digest = LineSnapshot(w)
               /\ Release[k] = "tagged" =>
                     ContextOf(w, k, IF Content[k].field THEN "v3" ELSE "v2")
               /\ Release[k] = "current" => ContextOf(w, k, CurrentTag(k))
<1> DEFINE w == CreateResponse(k)
           tag == IF Content[k].field THEN "v3" ELSE "v2"
           older == WithContext(Row(k), RecipientsCommitment(Content[k].recips, salt[k]), tag)
<1>1. /\ Content[k].field \in BOOLEAN /\ (Content[k].field => Release[k] # "plain")
      /\ Release[k] \in {"plain", "tagged", "current"}
  BY EvidenceAssumption
<1>2. ASSUME NEW v, DOMAIN v = CopyFields, HasContent(v, k), v.recips = Content[k].recips
      PROVE  LET u == ToWire(v, FALSE)
             IN  /\ DOMAIN u = CopyFields /\ HasContent(u, k) /\ u.recips = Content[k].recips
                 /\ u.ctx = v.ctx /\ (~Content[k].field => u.digest = LineSnapshot(u))
  <2> DEFINE u == ToWire(v, FALSE)
  <2>1. /\ DOMAIN u = CopyFields /\ u.ctx = v.ctx /\ u.recips = v.recips
        /\ u.id = v.id /\ u.perUser = v.perUser /\ u.field = v.field /\ u.opts = v.opts
        /\ u.body = v.body /\ u.extra = v.extra
        /\ ~v.field => u.digest = LineSnapshot(v)
    BY <1>2, WireIsContent
  <2> HIDE DEF u
  <2>2. HasContent(u, k)
    BY <1>2, <2>1 DEF HasContent
  <2>3. LineSnapshot(u) = LineSnapshot(v) /\ v.field = Content[k].field
    BY <1>2, <2>1, <2>2, SameContentSameDigest DEF HasContent
  <2> QED
    BY <1>2, <2>1, <2>2, <2>3 DEF u
<1>3. CASE Release[k] = "plain"
  <2>1. w = ToWire(Row(k), FALSE)
    BY <1>3 DEF CreateResponse
  <2>2. /\ DOMAIN w = CopyFields /\ HasContent(w, k) /\ w.recips = Content[k].recips
        /\ w.ctx = Row(k).ctx /\ w.digest = LineSnapshot(w)
    BY <1>1, <1>2, <1>3, <2>1, RowIsContent
  <2> HIDE DEF w
  <2>3. ~HasContext(w) /\ ~w.field
    BY <1>1, <1>3, <2>2, RowIsContent DEF HasContext, HasContent
  <2> QED
    BY <1>3, <2>2, <2>3 DEF w
<1>4. CASE Release[k] = "tagged"
  <2>1. w = ToWire(older, FALSE)
    BY <1>4 DEF CreateResponse
  <2>2. /\ DOMAIN older = CopyFields /\ HasContent(older, k) /\ ContextOf(older, k, tag)
        /\ older.recips = Content[k].recips
    BY ContextIsAdded
  <2> HIDE DEF older, tag
  <2>3. /\ DOMAIN w = CopyFields /\ HasContent(w, k) /\ w.recips = Content[k].recips
        /\ w.ctx = older.ctx
    BY <1>2, <2>1, <2>2
  <2> HIDE DEF w
  <2>4. ContextOf(w, k, tag)
    BY <2>2, <2>3 DEF ContextOf, HasContext
  <2> QED
    BY <1>4, <2>3, <2>4 DEF w, tag
<1>5. CASE Release[k] = "current"
  <2>1. w = ToWire(RequestFromRows(k), FALSE)
    BY <1>5 DEF CreateResponse
  <2>2. /\ DOMAIN w = CopyFields /\ HasContent(w, k) /\ w.recips = Content[k].recips
        /\ w.ctx = RequestFromRows(k).ctx
    BY <1>2, <2>1, RequestIsContent
  <2> HIDE DEF w
  <2>3. ContextOf(w, k, CurrentTag(k))
    BY <2>2, RequestIsContent DEF ContextOf, HasContext
  <2> QED
    BY <1>5, <2>2, <2>3 DEF w
<1> QED
  BY <1>1, <1>3, <1>4, <1>5

(* Both routes keep the content and the context; HTTP and socket differ in  *)
(* the recipients they leave and in the line digest they drop.              *)
LEMMA ViewsAreContent ==
    ASSUME NEW k, NEW user, NEW w, w \in {HttpView(k, user), SocketView(k, user)}
    PROVE  DOMAIN w = CopyFields /\ HasContent(w, k) /\ ContextOf(w, k, CurrentTag(k))
<1> DEFINE row == RequestFromRows(k)
<1>1. DOMAIN row = CopyFields /\ HasContent(row, k) /\ ContextOf(row, k, CurrentTag(k))
  BY RequestIsContent
<1> HIDE DEF row
<1>2. ASSUME NEW v, DOMAIN v = CopyFields, v.ctx = row.ctx,
             v.id = row.id, v.perUser = row.perUser, v.field = row.field, v.opts = row.opts,
             v.body = row.body, v.extra = row.extra
      PROVE  HasContent(v, k) /\ ContextOf(v, k, CurrentTag(k))
  BY <1>1, <1>2 DEF HasContent, ContextOf, HasContext
<1>3. CASE w = HttpView(k, user)
  <2> DEFINE v == [row EXCEPT !.recips = Visible(row, user)]
  <2>1. /\ DOMAIN v = CopyFields /\ v.ctx = row.ctx
        /\ v.id = row.id /\ v.perUser = row.perUser /\ v.field = row.field /\ v.opts = row.opts
        /\ v.body = row.body /\ v.extra = row.extra
    BY <1>1 DEF CopyFields
  <2>2. w = ToWire(v, Len(row.recips) > 1)
    BY <1>3 DEF HttpView, row
  <2> HIDE DEF v
  <2> QED
    BY <1>2, <2>1, <2>2, WireIsContent
<1>4. CASE w = SocketView(k, user)
  <2> DEFINE v == ToWire(row, FALSE)
  <2>1. /\ DOMAIN v = CopyFields /\ v.ctx = row.ctx
        /\ v.id = row.id /\ v.perUser = row.perUser /\ v.field = row.field /\ v.opts = row.opts
        /\ v.body = row.body /\ v.extra = row.extra
    BY <1>1, WireIsContent
  <2>2. w = [v EXCEPT !.recips = <<user>>,
                      !.digest = IF Len(v.recips) > 1 THEN NoDigest ELSE @]
    BY <1>4 DEF SocketView, row
  <2> HIDE DEF v
  <2>3. /\ DOMAIN w = CopyFields /\ w.ctx = v.ctx
        /\ w.id = v.id /\ w.perUser = v.perUser /\ w.field = v.field /\ w.opts = v.opts
        /\ w.body = v.body /\ w.extra = v.extra
    BY <2>1, <2>2 DEF CopyFields
  <2> QED
    BY <1>2, <2>1, <2>3
<1> QED
  BY <1>3, <1>4

(* A value-capable device reproduces the digest of its copy.                *)
LEMMA CapableReproduces ==
    ASSUME NEW k \in Cards, NEW w, HasContent(w, k), ContextOf(w, k, CurrentTag(k))
    PROVE  Reproduces(w) /\ Asserted(w) \in Candidates(RequestFromRows(k))
<1> DEFINE row == RequestFromRows(k)
           c == RecipientsCommitment(Content[k].recips, salt[k])
           tag == CurrentTag(k)
<1>1. /\ HasContext(w) /\ w.ctx.tag = tag /\ w.ctx.commitment = c
      /\ w.ctx.digest = ContextDigest(Row(k), c, tag)
  BY DEF ContextOf
<1>2. Content[k].field \in BOOLEAN /\ w.field = Content[k].field
  BY EvidenceAssumption DEF HasContent
<1>3. ContextDigest(w, c, tag) = ContextDigest(Row(k), c, tag)
  BY RowIsContent, SameContentSameDigest
<1>4. Recomputed(w) = ContextDigest(w, c, tag)
  BY <1>1, <1>2 DEF Recomputed, ContextDigest, CurrentTag
<1>5. Asserted(w) = ContextDigest(w, c, tag)
  BY <1>1, <1>3 DEF Asserted
<1>6. ContextDigest(w, c, tag) # NoDigest
  <2>1. ContextDigest(w, c, tag)[1] = tag /\ NoDigest[1] = "none" /\ tag # "none"
    BY DEF ContextDigest, ValueDigest, StructuredDigest, NoDigest, CurrentTag
  <2> QED
    BY <2>1
<1>7. ContextDigest(w, c, tag) \in Candidates(row)
  <2>1. row.field = Content[k].field /\ HasContext(row) /\ row.ctx.commitment = c
    BY RequestIsContent DEF HasContent, ContextOf
  <2>2. ContextDigest(w, c, tag) = ContextDigest(row, c, tag)
    BY RequestIsContent, SameContentSameDigest
  <2> HIDE DEF row, c
  <2> QED
    BY <1>2, <2>1, <2>2, CandidatesAre DEF CurrentTag
<1> QED
  BY <1>1, <1>4, <1>5, <1>6, <1>7 DEF Reproduces

(* An app without the value contract cannot reproduce a value request.      *)
LEMMA LegacyCannotReproduce ==
    ASSUME NEW k \in Cards, NEW w, DOMAIN w = CopyFields, HasContent(w, k),
           ContextOf(w, k, CurrentTag(k)), Content[k].field
    PROVE  LegacyProjection(w).id = k /\ ~Reproduces(LegacyProjection(w))
<1> DEFINE v == LegacyProjection(w)
<1>1. /\ v.id = k /\ v.field = FALSE /\ v.ctx = w.ctx
  BY DEF LegacyProjection, CopyFields, HasContent
<1> HIDE DEF v
<1>2. HasContext(v) /\ v.ctx.tag = "v2" /\ Asserted(v) = ContextDigest(Row(k), v.ctx.commitment, "v2")
  BY <1>1 DEF ContextOf, HasContext, Asserted, CurrentTag
<1>3. Recomputed(v) = StructuredDigest(v, v.ctx.commitment, "v2")
  BY <1>1, <1>2 DEF Recomputed
<1>4. ContextDigest(Row(k), v.ctx.commitment, "v2") = ValueDigest(Row(k), v.ctx.commitment, "v2")
  BY RowIsContent DEF ContextDigest, HasContent
<1>5. ~Reproduces(v)
  BY <1>2, <1>3, <1>4, EncodersDiffer DEF Reproduces
<1> QED
  BY <1>1, <1>5 DEF v


-----------------------------------------------------------------------------
(***************************************************************************)
(* The steps.                                                              *)
(***************************************************************************)
LEMMA RowsStay ==
    ASSUME salt' = salt
    PROVE  \A k : /\ RequestFromRows(k)' = RequestFromRows(k)
                  /\ CreateResponse(k)' = CreateResponse(k)
                  /\ \A u : HttpView(k, u)' = HttpView(k, u) /\ SocketView(k, u)' = SocketView(k, u)
                  /\ \A d, socket : ReceivedCopy(k, d, socket)' = ReceivedCopy(k, d, socket)
<1>1. \A k : RequestFromRows(k)' = RequestFromRows(k)
  BY DEF RequestFromRows
<1>2. \A k : CreateResponse(k)' = CreateResponse(k)
  BY <1>1 DEF CreateResponse
<1>3. \A k, u : HttpView(k, u)' = HttpView(k, u) /\ SocketView(k, u)' = SocketView(k, u)
  BY <1>1 DEF HttpView, SocketView
<1>4. \A k, d, socket : ReceivedCopy(k, d, socket)' = ReceivedCopy(k, d, socket)
  BY <1>3 DEF ReceivedCopy
<1> QED
  BY <1>1, <1>2, <1>3, <1>4

LEMMA MoreIsSigned ==
    ASSUME NEW known, NEW known2, known \subseteq known2, NEW trail, NEW trail2, trail \subseteq trail2
    PROVE  /\ \A p : PostGood(p, known, trail) => PostGood(p, known2, trail2)
           /\ \A x, k, u, row : DecisionGood(x, k, u, row, trail) => DecisionGood(x, k, u, row, trail2)
<1>1. \A d, o, t, a, g : WasSigned(d, o, t, a, g, trail) => WasSigned(d, o, t, a, g, trail2)
  BY DEF WasSigned
<1> QED
  BY <1>1 DEF PostGood, DecisionGood

LEMMA EvidenceStarts == EvidenceInit => EvidenceInv
<1> SUFFICES ASSUME EvidenceInit PROVE EvidenceInv
  OBVIOUS
<1>1. SaltsGood
  BY EvidenceAssumption DEF EvidenceInit, SaltsGood
<1>2. IssuedGood
  BY DEF EvidenceInit, IssuedGood
<1>3. ViewGood /\ DecidedGood /\ posts = {}
  BY DEF EvidenceInit, ViewGood, DecidedGood
<1> QED
  BY <1>1, <1>2, <1>3 DEF EvidenceInv

LEMMA ServerStartKeepsInv ==
    ASSUME EvidenceInv, ServerStarts
    PROVE  EvidenceInv'
<1>1. /\ starts' = starts + 1 /\ salt' = Migrated
      /\ issued' = issued /\ view' = view /\ posts' = posts /\ decided' = decided /\ signed' = signed
  BY DEF ServerStarts
<1>2. starts \in Nat /\ salt \in [Cards -> Nat] /\ starts' \in Nat /\ starts' > 0
  BY <1>1 DEF EvidenceInv, SaltsGood
<1>3. SaltsGood'
  BY <1>1, <1>2 DEF EvidenceInv, SaltsGood, Migrated
<1>4. CASE starts > 0
  <2>1. salt' = salt
    BY <1>1, <1>2, <1>4 DEF EvidenceInv, SaltsGood, Migrated
  <2>2. IssuedGood'
    BY <1>1, <1>2, <2>1, RowsStay DEF EvidenceInv, IssuedGood
  <2>3. ViewGood'
    BY <1>1, <1>2, <2>1, RowsStay DEF EvidenceInv, ViewGood
  <2>4. DecidedGood'
    BY <1>1, <1>2, <2>1, RowsStay DEF EvidenceInv, DecidedGood
  <2> QED
    BY <1>1, <1>3, <2>2, <2>3, <2>4 DEF EvidenceInv
<1>5. CASE ~(starts > 0)
  <2>1. IssuedGood'
    <3>1. ASSUME NEW k \in DOMAIN issued PROVE issued[k] = CreateResponse(k)'
      <4>1. k \in Cards /\ Release[k] # "current" /\ issued[k] = CreateResponse(k)
        BY <1>5 DEF EvidenceInv, IssuedGood
      <4>2. CASE Release[k] = "plain"
        BY <4>1, <4>2 DEF CreateResponse
      <4>3. CASE Release[k] = "tagged"
        <5>1. salt'[k] = salt[k]
          BY <1>1, <4>1, <4>3 DEF EvidenceInv, SaltsGood, Migrated
        <5> QED
          BY <4>1, <4>3, <5>1 DEF CreateResponse
      <4> QED
        BY <4>1, <4>2, <4>3, EvidenceAssumption
    <3> QED
      BY <1>1, <1>2, <3>1 DEF EvidenceInv, IssuedGood
  <2>2. ViewGood' /\ DecidedGood'
    BY <1>1, <1>5 DEF EvidenceInv, ViewGood, DecidedGood
  <2> QED
    BY <1>1, <1>3, <2>1, <2>2 DEF EvidenceInv
<1> QED
  BY <1>4, <1>5

LEMMA CreateKeepsInv ==
    ASSUME EvidenceInv, NEW k \in Cards, CardCreated(k)
    PROVE  EvidenceInv'
<1>1. /\ starts > 0 /\ k \notin DOMAIN issued
      /\ issued' = [j \in DOMAIN issued \cup {k} |-> IF j = k THEN CreateResponse(k) ELSE issued[j]]
      /\ salt' = salt /\ view' = view /\ posts' = posts /\ decided' = decided /\ signed' = signed
      /\ starts' = starts
  BY DEF CardCreated
<1>2. DOMAIN issued' = DOMAIN issued \cup {k}
  BY <1>1
<1>3. IssuedGood'
  BY <1>1, RowsStay DEF EvidenceInv, IssuedGood
<1>4. SaltsGood'
  BY <1>1 DEF EvidenceInv, SaltsGood
<1>5. ViewGood'
  BY <1>1, <1>2, RowsStay DEF EvidenceInv, ViewGood
<1>6. DecidedGood'
  BY <1>1, <1>2, RowsStay DEF EvidenceInv, DecidedGood
<1>7. \A p \in posts' : PostGood(p, DOMAIN issued', signed')
  BY <1>1, <1>2, MoreIsSigned DEF EvidenceInv
<1> QED
  BY <1>3, <1>4, <1>5, <1>6, <1>7 DEF EvidenceInv

LEMMA ReceiveKeepsInv ==
    ASSUME EvidenceInv, NEW d \in Signers, NEW k \in Cards, NEW socket \in BOOLEAN,
           DeviceReceives(d, k, socket)
    PROVE  EvidenceInv'
<1>1. /\ starts > 0 /\ k \in DOMAIN issued
      /\ view' = [device |-> d, copy |-> ReceivedCopy(k, d, socket)]
      /\ salt' = salt /\ issued' = issued /\ posts' = posts /\ decided' = decided
      /\ signed' = signed /\ starts' = starts
  BY DEF DeviceReceives, ReceivedCopy
<1>2. ViewGood'
  <2>1. view'.device = d /\ view'.copy = ReceivedCopy(k, d, socket)'
    BY <1>1, RowsStay
  <2> QED
    BY <1>1, <2>1 DEF ViewGood
<1>3. IssuedGood'
  BY <1>1, RowsStay DEF EvidenceInv, IssuedGood
<1>4. SaltsGood'
  BY <1>1 DEF EvidenceInv, SaltsGood
<1>5. DecidedGood'
  BY <1>1, RowsStay DEF EvidenceInv, DecidedGood
<1> QED
  BY <1>1, <1>2, <1>3, <1>4, <1>5 DEF EvidenceInv

(* A submission, with the copy behind its digest.                           *)
LEMMA PutKeepsInv ==
    ASSUME EvidenceInv, NEW p, NEW w, Puts(p, w), SaysDigest(w, p.sig.digest),
           p.card \in DOMAIN issued, p.device \in Signers, p.option \in DOMAIN KindOf,
           p.text \in {"none", "note"}
    PROVE  EvidenceInv'
<1> DEFINE s == [device |-> p.device, option |-> p.option, text |-> p.text,
                 answer |-> p.answer, copy |-> w]
<1>1. /\ posts' = posts \cup {p} /\ signed' = signed \cup {s}
      /\ salt' = salt /\ issued' = issued /\ view' = view /\ decided' = decided /\ starts' = starts
  BY DEF Puts
<1>2. PostGood(p, DOMAIN issued, signed')
  <2>1. /\ s \in signed' /\ s.device = p.device /\ s.option = p.option /\ s.text = p.text
        /\ s.answer = p.answer /\ s.copy = w
    BY <1>1
  <2> HIDE DEF s
  <2>2. WasSigned(p.device, p.option, p.text, p.answer, p.sig.digest, signed')
    BY <2>1 DEF WasSigned
  <2> QED
    BY <2>2 DEF PostGood
<1> HIDE DEF s
<1>3. \A q \in posts' : PostGood(q, DOMAIN issued', signed')
  BY <1>1, <1>2, MoreIsSigned DEF EvidenceInv
<1>4. SaltsGood' /\ IssuedGood' /\ ViewGood'
  BY <1>1, RowsStay DEF EvidenceInv, SaltsGood, IssuedGood, ViewGood
<1>5. DecidedGood'
  <2>1. \A x, k, u, row : DecisionGood(x, k, u, row, signed) => DecisionGood(x, k, u, row, signed')
    BY <1>1, MoreIsSigned
  <2>2. ASSUME NEW k \in Cards, NEW u \in DOMAIN decided[k]
        PROVE  /\ starts > 0 /\ k \in DOMAIN issued
               /\ DecisionGood(decided[k][u], k, u, RequestFromRows(k)', signed')
               /\ ~Content[k].perUser => \A v \in DOMAIN decided[k] : u = v
    <3>1. RequestFromRows(k)' = RequestFromRows(k)
      BY <1>1, RowsStay
    <3>2. DecisionGood(decided[k][u], k, u, RequestFromRows(k), signed)
      BY DEF EvidenceInv, DecidedGood
    <3> QED
      BY <2>1, <3>1, <3>2 DEF EvidenceInv, DecidedGood
  <2> QED
    BY <1>1, <2>2 DEF EvidenceInv, DecidedGood
<1> QED
  BY <1>3, <1>4, <1>5 DEF EvidenceInv


LEMMA ReceivedIsContent ==
    ASSUME EvidenceInv, view.device # Unset
    PROVE  \E k \in DOMAIN issued :
              /\ k \in Cards /\ view.copy.id = k
              /\ view.device \notin Incapable =>
                    HasContent(view.copy, k) /\ ContextOf(view.copy, k, CurrentTag(k))
              /\ view.device \in Incapable /\ Content[k].field => ~Reproduces(view.copy)
<1>1. PICK k \in DOMAIN issued, socket \in BOOLEAN :
          view.copy = ReceivedCopy(k, view.device, socket)
  BY DEF EvidenceInv, ViewGood
<1>2. PICK w : /\ w \in {HttpView(k, SignerUser[view.device]), SocketView(k, SignerUser[view.device])}
               /\ view.copy = Contract(w, view.device)
  BY <1>1 DEF ReceivedCopy
<1>3. k \in Cards
  BY DEF EvidenceInv, IssuedGood
<1>4. DOMAIN w = CopyFields /\ HasContent(w, k) /\ ContextOf(w, k, CurrentTag(k))
  BY <1>2, ViewsAreContent
<1>5. CASE view.device \notin Incapable
  <2>1. view.copy = w
    BY <1>2, <1>5 DEF Contract
  <2> QED
    BY <1>3, <1>4, <1>5, <2>1 DEF HasContent
<1>6. CASE view.device \in Incapable
  <2>1. view.copy = LegacyProjection(w)
    BY <1>2, <1>6 DEF Contract
  <2>2. CASE Content[k].field
    BY <1>3, <1>4, <1>6, <2>1, <2>2, LegacyCannotReproduce
  <2>3. CASE ~Content[k].field
    <3>1. view.copy = w
      BY <1>4, <2>1, <2>3 DEF LegacyProjection, HasContent
    <3> QED
      BY <1>3, <1>4, <1>6, <2>3, <3>1 DEF HasContent
  <2> QED
    BY <2>2, <2>3
<1> QED
  BY <1>5, <1>6

LEMMA TrimmedTexts ==
    ASSUME NEW text
    PROVE  Trim(text) \in {"none", "note"} /\ (text \in {"none", "note"} => Trim(text) = text)
BY DEF Trim

LEMMA SubmissionSays ==
    ASSUME NEW d, NEW k, NEW w, NEW digest, NEW option, NEW text, NEW answer, NEW form
    PROVE  LET p == Submission(d, k, w, digest, option, text, answer, form)
           IN  /\ p.card = k /\ p.device = d /\ p.option = option /\ p.text = text
               /\ p.answer = answer /\ p.sig.digest = digest
BY DEF Submission

LEMMA SignKeepsInv ==
    ASSUME EvidenceInv, NEW option \in DOMAIN KindOf, NEW text, NEW answer,
           DeviceSigns(option, text, answer)
    PROVE  EvidenceInv'
<1> DEFINE w == view.copy
           d == view.device
           p == Submission(d, w.id, w, Asserted(w), option, Trim(text), answer, "canonical")
<1>1. d # Unset /\ d \notin Incapable /\ Reproduces(w) /\ Puts(p, w)
  BY DEF DeviceSigns
<1>2. /\ p.card = w.id /\ p.device = d /\ p.option = option /\ p.text = Trim(text)
      /\ p.sig.digest = Asserted(w)
  BY SubmissionSays
<1>3. d \in Signers
  BY <1>1 DEF EvidenceInv, ViewGood
<1>4. PICK k \in DOMAIN issued : k \in Cards /\ w.id = k /\ HasContent(w, k)
  BY <1>1, ReceivedIsContent
<1> HIDE DEF w, d, p
<1>5. w.field \in BOOLEAN
  BY <1>4, EvidenceAssumption DEF HasContent
<1>6. SaysDigest(w, Asserted(w))
  <2>1. CASE HasContext(w)
    BY <1>1, <1>5, <2>1 DEF Reproduces, Recomputed, SaysDigest, ContextDigest
  <2>2. CASE ~HasContext(w)
    BY <1>1, <1>5, <2>2 DEF Reproduces, SaysDigest
  <2> QED
    BY <2>1, <2>2
<1> QED
  BY <1>1, <1>2, <1>3, <1>4, <1>6, TrimmedTexts, PutKeepsInv

LEMMA OlderSignKeepsInv ==
    ASSUME EvidenceInv, NEW d \in OldApps, NEW k \in Cards, NEW option \in DOMAIN KindOf,
           NEW text, NEW answer, NEW form, OlderAppSigns(d, k, option, text, answer, form)
    PROVE  EvidenceInv'
<1> DEFINE w == CreateResponse(k)
           p == Submission(d, k, w, Asserted(w), option, Trim(text), answer, form)
<1>1. Release[k] # "current" /\ Puts(p, w)
  BY DEF OlderAppSigns
<1>2. /\ p.card = k /\ p.device = d /\ p.option = option /\ p.text = Trim(text)
      /\ p.sig.digest = Asserted(w)
  BY SubmissionSays
<1>3. d \in Signers /\ k \in DOMAIN issued /\ Release[k] \in {"plain", "tagged"}
  BY <1>1, EvidenceAssumption DEF EvidenceInv, IssuedGood
<1>4. /\ HasContent(w, k) /\ w.field \in BOOLEAN
      /\ Release[k] = "plain" => ~HasContext(w) /\ w.digest = LineSnapshot(w)
      /\ Release[k] = "tagged" => ContextOf(w, k, IF Content[k].field THEN "v3" ELSE "v2")
  BY <1>3, ResponseIsContent, EvidenceAssumption DEF EvidenceInv, SaltsGood, HasContent
<1> HIDE DEF w, p
<1>5. SaysDigest(w, Asserted(w))
  <2>1. CASE Release[k] = "plain"
    BY <1>4, <2>1 DEF SaysDigest, Asserted
  <2>2. CASE Release[k] = "tagged"
    <3>1. HasContext(w) /\ w.ctx.digest = ContextDigest(Row(k), w.ctx.commitment, w.ctx.tag)
      BY <1>4, <2>2 DEF ContextOf
    <3>2. w.ctx.digest = ContextDigest(w, w.ctx.commitment, w.ctx.tag)
      BY <1>4, <3>1, RowIsContent, SameContentSameDigest
    <3> QED
      BY <1>4, <3>1, <3>2 DEF SaysDigest, Asserted
  <2> QED
    BY <1>3, <2>1, <2>2
<1> QED
  BY <1>1, <1>2, <1>3, <1>5, TrimmedTexts, PutKeepsInv

(* The decision is what the server has verified.                            *)
LEMMA RecordKeepsInv ==
    ASSUME EvidenceInv, NEW p \in posts, ServerRecords(p)
    PROVE  EvidenceInv'
<1> DEFINE u == SignerUser[p.device]
           k == p.card
           x == [id |-> k, option |-> p.option, kind |-> KindOf[p.option],
                 text |-> Trim(p.text), answer |-> p.answer, user |-> u, device |-> p.device,
                 sig |-> p.sig]
           wire == ToWire(RequestFromRows(k), FALSE)
<1>1. /\ starts > 0 /\ StillUndecided(k, u) /\ OptionOf(Row(k), p.option) # Unset
      /\ decided' = [decided EXCEPT ![k] =
            [v \in DOMAIN @ \cup {u} |-> IF v = u THEN x ELSE @[v]]]
      /\ salt' = salt /\ issued' = issued /\ view' = view /\ posts' = posts /\ signed' = signed
      /\ starts' = starts
  BY DEF ServerRecords
<1>2. /\ p.sig.digest \in Candidates(wire) /\ AnswerFits(wire, p.answer)
      /\ p.sig.version = IF wire.field THEN "d2" ELSE "d1"
      /\ p.sig.key = p.device
      /\ p.sig.bytes = SigningPayload(p.sig.version, k, p.sig.digest, p.option, p.device,
                                      "canonical", p.text, p.answer)
  BY DEF ServerRecords, ServerVerifies
<1>3. /\ k \in DOMAIN issued /\ p.device \in Signers /\ p.option \in DOMAIN KindOf
      /\ p.text \in {"none", "note"}
      /\ WasSigned(p.device, p.option, p.text, p.answer, p.sig.digest, signed)
  BY DEF EvidenceInv, PostGood
<1>4. k \in Cards
  BY <1>3 DEF EvidenceInv, IssuedGood
<1>5. /\ DOMAIN x = DecisionFields
      /\ x.id = k /\ x.option = p.option /\ x.kind = KindOf[p.option] /\ x.text = p.text
      /\ x.answer = p.answer /\ x.user = u /\ x.device = p.device /\ x.sig = p.sig
  BY <1>3, TrimmedTexts DEF DecisionFields
<1>6. /\ Candidates(wire) = Candidates(RequestFromRows(k)) /\ wire.field = Content[k].field
      /\ AnswerFits(Row(k), p.answer)
  <2> DEFINE row == RequestFromRows(k)
  <2>1. DOMAIN row = CopyFields /\ HasContent(row, k)
    BY RequestIsContent
  <2>2. /\ wire.ctx = row.ctx /\ wire.recips = row.recips
        /\ wire.id = row.id /\ wire.perUser = row.perUser /\ wire.field = row.field
        /\ wire.opts = row.opts /\ wire.body = row.body /\ wire.extra = row.extra
    BY <2>1, WireIsContent
  <2> HIDE DEF wire, row
  <2>3. HasContent(wire, k)
    BY <2>1, <2>2 DEF HasContent
  <2>4. /\ \A c, t : ContextDigest(wire, c, t) = ContextDigest(row, c, t)
        /\ LineSnapshot(wire) = LineSnapshot(row)
        /\ AnswerFits(wire, p.answer) = AnswerFits(Row(k), p.answer)
    BY <2>1, <2>2, <2>3, RowIsContent, SameContentSameDigest
  <2>5. Candidates(wire) = Candidates(row)
    BY <2>2, <2>4 DEF Candidates, HasContext
  <2> QED
    BY <1>2, <2>3, <2>4, <2>5 DEF HasContent, row
<1> HIDE DEF x, wire
<1>7. DecisionGood(x, k, u, RequestFromRows(k), signed)
  BY <1>1, <1>2, <1>3, <1>5, <1>6 DEF DecisionGood, PayloadOf
<1>8. DecidedGood'
  <2>1. /\ DOMAIN decided = Cards /\ DOMAIN decided' = Cards
        /\ \A j \in Cards : j # k => decided'[j] = decided[j]
        /\ DOMAIN decided'[k] = DOMAIN decided[k] \cup {u} /\ decided'[k][u] = x
        /\ \A v \in DOMAIN decided[k] : v # u => decided'[k][v] = decided[k][v]
    <3>1. DOMAIN decided = Cards
      BY DEF EvidenceInv, DecidedGood
    <3> QED
      BY <1>1, <1>4, <3>1
  <2> HIDE DEF u, k
  <2>2. ASSUME NEW j \in Cards, NEW v \in DOMAIN decided'[j]
        PROVE  /\ starts > 0 /\ j \in DOMAIN issued
               /\ DecisionGood(decided'[j][v], j, v, RequestFromRows(j), signed)
               /\ ~Content[j].perUser => \A y \in DOMAIN decided'[j] : v = y
    <3>1. CASE j # k
      BY <2>1, <3>1 DEF EvidenceInv, DecidedGood
    <3>2. CASE j = k
      <4>1. DecisionGood(decided'[j][v], j, v, RequestFromRows(j), signed)
        BY <1>7, <2>1, <3>2 DEF EvidenceInv, DecidedGood
      <4>2. ~Content[j].perUser => DOMAIN decided'[j] = {u}
        BY <1>1, <2>1, <3>2 DEF StillUndecided
      <4> QED
        BY <1>1, <1>3, <3>2, <4>1, <4>2
    <3> QED
      BY <3>1, <3>2
  <2>3. \A j : RequestFromRows(j)' = RequestFromRows(j)
    BY <1>1, RowsStay
  <2> QED
    BY <1>1, <2>1, <2>2, <2>3 DEF DecidedGood
<1>9. SaltsGood' /\ IssuedGood' /\ ViewGood'
  BY <1>1, RowsStay DEF EvidenceInv, SaltsGood, IssuedGood, ViewGood
<1> QED
  BY <1>1, <1>8, <1>9 DEF EvidenceInv


LEMMA EvidenceStepKeepsInv == EvidenceInv /\ [EvidenceNext]_evidenceVars => EvidenceInv'
<1> SUFFICES ASSUME EvidenceInv, [EvidenceNext]_evidenceVars PROVE EvidenceInv'
  OBVIOUS
<1>1. CASE UNCHANGED evidenceVars
  <2>1. /\ salt' = salt /\ issued' = issued /\ view' = view /\ posts' = posts
        /\ decided' = decided /\ signed' = signed /\ starts' = starts
    BY <1>1 DEF evidenceVars
  <2>2. SaltsGood' /\ IssuedGood' /\ ViewGood'
    BY <2>1, RowsStay DEF EvidenceInv, SaltsGood, IssuedGood, ViewGood
  <2>3. DecidedGood'
    BY <2>1, RowsStay DEF EvidenceInv, DecidedGood
  <2> QED
    BY <2>1, <2>2, <2>3 DEF EvidenceInv
<1>2. CASE EvidenceNext
  BY <1>2, ServerStartKeepsInv, CreateKeepsInv, ReceiveKeepsInv, SignKeepsInv, OlderSignKeepsInv,
     RecordKeepsInv DEF EvidenceNext
<1> QED
  BY <1>1, <1>2

LEMMA EvidenceInvHolds == EvidenceSpec => []EvidenceInv
BY EvidenceStarts, EvidenceStepKeepsInv, PTL DEF EvidenceSpec

(* Every projection a device receives carries a digest that the device      *)
(* reproduces and the server accepts; an app without the value contract     *)
(* holds no value request it could sign.                                    *)
THEOREM ViewsStaySignable == EvidenceSpec => []ViewsCanBeSigned
<1>1. EvidenceInv => ViewsCanBeSigned
  <2> SUFFICES ASSUME EvidenceInv, view.device # Unset
               PROVE  LET w == view.copy
                      IN  IF view.device \in Incapable THEN Content[w.id].field => ~Reproduces(w)
                          ELSE Reproduces(w) /\ Asserted(w) \in Candidates(RequestFromRows(w.id))
    BY DEF ViewsCanBeSigned
  <2> QED
    BY ReceivedIsContent, CapableReproduces
<1> QED
  BY <1>1, EvidenceInvHolds, PTL

(* A recorded decision passes against the saved create response.            *)
LEMMA RecordedVerifies ==
    ASSUME EvidenceInv, NEW k \in Cards, NEW u \in DOMAIN decided[k],
           HasContext(issued[k]) \/ decided[k][u].sig.digest = LineSnapshot(issued[k])
    PROVE  VerifyDecisionReceipt(issued[k], decided[k][u])
<1> DEFINE x == decided[k][u]
           w == issued[k]
           row == RequestFromRows(k)
           c == RecipientsCommitment(Content[k].recips, salt[k])
<1>1. k \in DOMAIN issued /\ DecisionGood(x, k, u, row, signed)
  BY DEF EvidenceInv, DecidedGood
<1>2. /\ w = CreateResponse(k) /\ Release[k] \in {"plain", "tagged", "current"}
      /\ Release[k] = "tagged" => salt[k] = 1
  BY <1>1, EvidenceAssumption DEF EvidenceInv, IssuedGood, SaltsGood
<1>3. /\ HasContent(w, k) /\ w.recips = Content[k].recips
      /\ Release[k] = "plain" => ~HasContext(w) /\ ~w.field
      /\ Release[k] # "plain" => HasContext(w) /\ w.ctx.commitment = c
  BY <1>2, ResponseIsContent DEF ContextOf
<1>4. HasContent(row, k) /\ HasContext(row) /\ row.ctx.commitment = c /\ row.recips = Content[k].recips
  BY RequestIsContent DEF ContextOf
<1>5. w.field = Content[k].field /\ row.field = Content[k].field /\ Content[k].field \in BOOLEAN
  BY <1>3, <1>4, EvidenceAssumption DEF HasContent
<1> HIDE DEF w, row, c, x
<1>6. x.sig.digest \in Candidates(w)
  <2>1. CASE HasContext(w)
    <3>1. \A t : ContextDigest(w, c, t) = ContextDigest(row, c, t)
      BY <1>3, <1>4, SameContentSameDigest
    <3>2. LineSnapshot(w) = LineSnapshot(row)
      BY <1>3, <1>4, SameContentSameDigest
    <3>3. w.ctx.commitment = c
      BY <1>2, <1>3, <2>1
    <3>4. Candidates(w) = Candidates(row)
      BY <1>4, <1>5, <2>1, <3>1, <3>2, <3>3 DEF Candidates
    <3> QED
      BY <1>1, <3>4 DEF DecisionGood
  <2>2. CASE ~HasContext(w)
    <3>1. x.sig.digest = LineSnapshot(w)
      BY <2>2 DEF x, w
    <3>2. ~w.field
      BY <1>2, <1>3, <2>2
    <3> QED
      BY <1>5, <3>1, <3>2, CandidatesAre
  <2> QED
    BY <2>1, <2>2
<1>7. OptionOf(w, x.option) # Unset
  BY <1>1, <1>3, RowIsContent, SameContentSameDigest DEF DecisionGood
<1>8. IF x.sig.version = "d1" THEN x.answer = Unset /\ ~w.field ELSE x.answer # Unset
  BY <1>1, <1>5, RowIsContent, EvidenceAssumption DEF DecisionGood, AnswerFits, HasContent
<1>9. PayloadRebuilt(x)
  <2> DEFINE said == PayloadOf(x)
  <2>1. x.user = SignerUser[x.device] /\ x.kind = KindOf[x.option] /\ x.sig.bytes = said
    BY <1>1 DEF DecisionGood
  <2>2. said.user = x.user /\ said.kind = x.kind /\ said = [f \in DOMAIN said |-> said[f]]
    BY <2>1 DEF PayloadOf, SigningPayload
  <2>3. PayloadRebuilt(x) <=> x.sig.bytes = [said EXCEPT !.user = x.user, !.kind = x.kind]
    BY DEF PayloadRebuilt, PayloadOf
  <2> HIDE DEF said
  <2>4. [said EXCEPT !.user = x.user, !.kind = x.kind] = said
    BY <2>2
  <2> QED
    BY <2>1, <2>3, <2>4
<1>10. /\ x.id = w.id /\ (w.field => HasContext(w)) /\ x.kind = KindOf[x.option]
       /\ \E d \in Signers : SignerUser[d] = x.user /\ d = x.sig.key /\ d = x.device
  BY <1>1, <1>2, <1>3 DEF DecisionGood, HasContent
<1> QED
  BY <1>6, <1>7, <1>8, <1>9, <1>10 DEF VerifyDecisionReceipt, x, w

(* Every recorded decision passes nod-verify for the user and the option it *)
(* names: the salt, and so the commitment, outlives restarts and upgrades,  *)
(* and the verifier admits every encoder the server admits.                 *)
THEOREM HonestReceiptsAlwaysVerify == EvidenceSpec => []HonestReceiptsVerify
<1>1. EvidenceInv => HonestReceiptsVerify
  <2> SUFFICES ASSUME EvidenceInv, NEW k \in Cards, NEW u \in DOMAIN decided[k],
                      HasContext(issued[k]) \/ decided[k][u].sig.digest = LineSnapshot(issued[k])
               PROVE  NodVerify(issued[k], k, u, decided[k][u].option) = 0
    BY DEF HonestReceiptsVerify
  <2>1. VerifyDecisionReceipt(issued[k], decided[k][u])
    BY RecordedVerifies
  <2>2. u # Unset /\ decided[k][u].user = u
    BY EvidenceAssumption DEF EvidenceInv, DecidedGood, DecisionGood
  <2>3. LoadDecision(k, u) = {u}
    BY <2>2 DEF LoadDecision, EvidenceInv, DecidedGood
  <2>4. Cardinality({u}) = 1 /\ (CHOOSE v \in {u} : TRUE) = u
    BY FS_Singleton
  <2> QED
    BY <2>1, <2>2, <2>3, <2>4 DEF NodVerify
<1> QED
  BY <1>1, EvidenceInvHolds, PTL

(* What the verifier passes was signed: for every response w and decision x *)
(* that carries a recorded signature, not only those a run tries.           *)
LEMMA PassedWasSigned ==
    ASSUME EvidenceInv, NEW k \in Cards, NEW u \in DOMAIN decided[k],
           NEW w, w.field \in BOOLEAN, NEW x, x.sig = decided[k][u].sig, VerifyDecisionReceipt(w, x)
    PROVE  \E s \in signed :
              /\ s.device = x.device /\ s.option = x.option
              /\ s.text = x.text /\ s.answer = x.answer
              /\ Covered(s.copy, x.sig.digest) = Covered(w, x.sig.digest)
<1> DEFINE y == decided[k][u]
           said == PayloadOf(y)
           rebuilt == [PayloadOf(x) EXCEPT !.user = x.user, !.kind = x.kind]
<1>1. DecisionGood(y, k, u, RequestFromRows(k), signed)
  BY DEF EvidenceInv, DecidedGood
<1>2. said = rebuilt
  BY <1>1 DEF VerifyDecisionReceipt, PayloadRebuilt, DecisionGood, PayloadOf
<1>3. /\ said.option = y.option /\ said.device = y.device /\ said.text = y.text
      /\ said.answer = y.answer
      /\ rebuilt.option = x.option /\ rebuilt.device = x.device /\ rebuilt.text = x.text
      /\ rebuilt.answer = x.answer
  BY DEF PayloadOf, SigningPayload
<1> HIDE DEF y, said, rebuilt
<1>4. x.option = y.option /\ x.device = y.device /\ x.text = y.text /\ x.answer = y.answer
  BY <1>2, <1>3
<1>5. PICK s \in signed :
          /\ s.device = x.device /\ s.option = x.option /\ s.text = x.text /\ s.answer = x.answer
          /\ SaysDigest(s.copy, x.sig.digest)
  BY <1>1, <1>4 DEF DecisionGood, WasSigned, y
<1>6. x.sig.digest \in Candidates(w)
  BY DEF VerifyDecisionReceipt
<1> QED
  BY <1>5, <1>6, CoveredAlike

(* "A pass proves the pinned device signed exactly this option on exactly   *)
(* this request" (receipt.rs): with other files, of another request or      *)
(* changed after they were saved, nothing passes that was not signed.       *)
THEOREM VerifiedWasSigned == EvidenceSpec => []VerifiedMeansSigned
<1>1. EvidenceInv => VerifiedMeansSigned
  <2> SUFFICES ASSUME EvidenceInv, NEW k \in Cards, NEW u \in DOMAIN decided[k],
                      NEW w \in OtherResponses(issued[k]), NEW x \in OtherDecisions(decided[k][u]),
                      VerifyDecisionReceipt(w, x)
               PROVE  \E s \in signed :
                         /\ s.device = x.device /\ s.option = x.option
                         /\ s.text = x.text /\ s.answer = x.answer
                         /\ Covered(s.copy, x.sig.digest) = Covered(w, x.sig.digest)
    BY DEF VerifiedMeansSigned
  <2>1. ASSUME NEW j \in DOMAIN issued
        PROVE  DOMAIN issued[j] = CopyFields /\ issued[j].field \in BOOLEAN
    <3>1. j \in Cards /\ issued[j] = CreateResponse(j) /\ (Release[j] = "tagged" => salt[j] = 1)
      BY DEF EvidenceInv, IssuedGood, SaltsGood
    <3>2. DOMAIN issued[j] = CopyFields /\ HasContent(issued[j], j)
      BY <3>1, ResponseIsContent
    <3> QED
      BY <3>1, <3>2, EvidenceAssumption DEF HasContent
  <2>2. k \in DOMAIN issued
    BY DEF EvidenceInv, DecidedGood
  <2>3. w.field \in BOOLEAN
    BY <2>1, <2>2 DEF OtherResponses, CopyFields
  <2>4. x.sig = decided[k][u].sig
    <3>1. DOMAIN decided[k][u] = DecisionFields
      BY DEF EvidenceInv, DecidedGood, DecisionGood
    <3> HIDE DEF EvidenceInv
    <3> QED
      BY <3>1 DEF OtherDecisions, DecisionFields
  <2> QED
    BY <2>3, <2>4, PassedWasSigned
<1> QED
  BY <1>1, EvidenceInvHolds, PTL
=============================================================================
