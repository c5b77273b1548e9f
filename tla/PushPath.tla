------------------------------- MODULE PushPath -------------------------------
(***************************************************************************)
(* The way of one push_request call: the server's registry, then either    *)
(* the embedded provider or a standalone nod-apns-relay, Apple, and the    *)
(* verdict on the way back, from which the push worker (PushOutbox)        *)
(* decides to retry, to give up or to clear a token.                       *)
(*                                                                         *)
(* The process that signs (the server, or the relay) keeps one provider    *)
(* token that its sends share.  Apple refuses one that is too old and      *)
(* processes that make a new one too often.  A send takes seconds and a      *)
(* unit of time many minutes, so at most one unit ends during a send.      *)
(***************************************************************************)
EXTENDS Integers, Sequences

CONSTANTS
    Pushes,         \* push_request calls under way at once
    Targets,        \* device rows: provider, platform, app
    ServerApp,      \* the app id the server's provider is configured for
    RelayBundles,   \* the bundle ids the relay may be configured for
    RefreshAfter,   \* TOKEN_REFRESH_AFTER_SECS
    ExpireAfter,    \* Apple: ExpiredProviderToken
    UpdateGap,      \* Apple: TooManyProviderTokenUpdates
    MaxWall,        \* bound on the clock
    MaxRestarts     \* bound on restarts

ASSUME PushPathAssumption ==
    /\ {RefreshAfter, ExpireAfter, UpdateGap, MaxWall, MaxRestarts} \subseteq Nat
    /\ 0 < RefreshAfter /\ UpdateGap <= RefreshAfter /\ RefreshAfter <= ExpireAfter

VARIABLES
    wall,       \* the clock
    route,      \* the provider in the registry: "direct", "relay" or "none"
    bundle,     \* the bundle id the relay is pinned to
    cached,     \* issue time of the cached provider token, or NoToken
    mints,      \* history: issue times of the tokens this process signed
    push,       \* the calls
    restarts

pathVars == <<wall, route, bundle, cached, mints, push, restarts>>

NoToken == -1
Apple == "apple_apns"

Accepted == [ok |-> TRUE, retryable |-> FALSE, invalid |-> FALSE]
Failure(retryable, invalid) == [ok |-> FALSE, retryable |-> retryable, invalid |-> invalid]
\* What the worker makes of a reqwest error, and of its own 15-second timeout.
Unheard == Failure(TRUE, FALSE)
NoVerdict == [ok |-> FALSE, retryable |-> FALSE, invalid |-> FALSE, none |-> TRUE]

NoTarget == [provider |-> "none", platform |-> "none", app |-> "none"]

\* at: where the call is; waits: the server still awaits it; read, token: the
\* clock and the token the signer used; late: a unit ended since; apple: what
\* Apple made of it (history); result: what the provider returns, reply: the
\* relay's response, body its DeliveryFailure.
NoPush == [at |-> "idle", waits |-> FALSE, target |-> NoTarget, big |-> FALSE, read |-> 0,
           token |-> 0, late |-> FALSE, apple |-> "nothing", result |-> NoVerdict,
           reply |-> "none", body |-> NoVerdict, verdict |-> NoVerdict]

\* configured_push_route: both routes configured is a startup error.
ConfiguredRoutes == {"direct", "relay", "none"}

PathInit ==
    /\ wall = 0 /\ cached = NoToken /\ mints = <<>> /\ restarts = 0
    /\ route \in ConfiguredRoutes /\ bundle \in RelayBundles
    /\ route # "relay" => bundle = ServerApp     \* the embedded provider pins its own app id
    /\ push = [p \in Pushes |-> NoPush]

Moves(p, change) == push' = [push EXCEPT ![p] = change]
\* push_request returns, to a worker that may have stopped waiting.
Concluded(c, v) ==
    [NoPush EXCEPT !.apple = c.apple, !.verdict = IF c.waits THEN v ELSE c.verdict]
----------------------------------------------------------------------------
(***************************************************************************)
(* The server.                                                             *)
(***************************************************************************)
Mobile(d) == d.platform \in {"ios", "watchos"}

\* PushRegistry::has_route, which prepare_delivery asks before a send.
HasRoute(d) == route # "none" /\ d.provider = Apple /\ Mobile(d) /\ d.app = ServerApp

\* push_request of either provider, with build_relay_request; the embedded one
\* runs the relay's checks itself, which HasRoute implies under its own app id.  big: the notification
\* would not fit into Apple's 4096 bytes.
PushRequest(p) ==
    /\ push[p].at = "idle"
    /\ \E d \in Targets, big \in BOOLEAN :
          /\ HasRoute(d)
          /\ Moves(p, [NoPush EXCEPT !.at = IF route = "direct" THEN "ready" ELSE "posted",
                                    !.waits = TRUE, !.target = d, !.big = big])
    /\ UNCHANGED <<wall, route, bundle, cached, mints, restarts>>

\* The worker's timeout drops the call; the relay may or may not go on with it.
ServerGivesUp(p) ==
    /\ push[p].waits
    /\ \/ Moves(p, Concluded(push[p], Unheard))
       \/ /\ route = "relay"
          /\ Moves(p, [push[p] EXCEPT !.waits = FALSE, !.verdict = Unheard])
    /\ UNCHANGED <<wall, route, bundle, cached, mints, restarts>>

\* The relay cannot be reached, or its answer does not arrive in ten seconds.
RelayUnheard(p) ==
    /\ push[p].at \in {"posted", "reply"}
    /\ Moves(p, Concluded(push[p], Unheard))
    /\ UNCHANGED <<wall, route, bundle, cached, mints, restarts>>

FallbackFinal(reply) == Failure(FALSE, FALSE)

\* The verdict on a response whose body is no DeliveryFailure or broke off.
Fallback(reply) == Failure(reply = "5xx", FALSE)

\* ApnsRelayProvider::push_request reads the relay's response.
ServerHears(p) ==
    /\ push[p].at = "reply"
    /\ \E readable \in BOOLEAN :
          Moves(p, Concluded(push[p],
                    CASE push[p].reply = "200" -> Accepted
                      [] push[p].reply # "200" /\ readable /\ push[p].body # NoVerdict -> push[p].body
                      [] OTHER -> Fallback(push[p].reply)))
    /\ UNCHANGED <<wall, route, bundle, cached, mints, restarts>>
----------------------------------------------------------------------------
(***************************************************************************)
(* The relay, whose checks and Apple client the embedded provider shares.  *)
(***************************************************************************)
\* RelayPolicy::validate; a refusal is a 400 that carries no DeliveryFailure.
RelayReceives(p) ==
    /\ push[p].at = "posted"
    /\ LET d == push[p].target
       IN  Moves(p, IF Mobile(d) /\ d.app = bundle
                   THEN [push[p] EXCEPT !.at = "ready"]
                   ELSE [push[p] EXCEPT !.at = "reply", !.reply = "4xx"])
    /\ UNCHANGED <<wall, route, bundle, cached, mints, restarts>>

\* send: an oversized payload is refused; otherwise jwt reads the clock ...
ReadsClock(p) ==
    /\ push[p].at = "ready"
    /\ Moves(p, IF push[p].big
               THEN [push[p] EXCEPT !.at = "result", !.big = FALSE,
                                    !.result = Failure(FALSE, FALSE)]
               ELSE [push[p] EXCEPT !.at = "clock", !.read = wall])
    /\ UNCHANGED <<wall, route, bundle, cached, mints, restarts>>

StillFreshWrapping(now, issued) == (now - issued) % 2^16 < RefreshAfter

\* saturating_sub: another send may have signed after this one read the clock.
StillFresh(now, issued) == (IF now > issued THEN now - issued ELSE 0) < RefreshAfter

\* ... and then waits for the lock, and reuses the token or signs another.
TakesToken(p) ==
    /\ push[p].at = "clock"
    /\ LET now == push[p].read
       IN  IF cached # NoToken /\ StillFresh(now, cached)
           THEN /\ Moves(p, [push[p] EXCEPT !.at = "apple", !.read = 0, !.token = cached])
                /\ UNCHANGED <<cached, mints>>
           ELSE /\ Moves(p, [push[p] EXCEPT !.at = "apple", !.read = 0, !.token = now])
                /\ cached' = now
                /\ mints' = Append(mints, now)
    /\ UNCHANGED <<wall, route, bundle, restarts>>

\* External: what Apple may answer.  "unregistered" stands for the reasons
\* Unregistered and BadDeviceToken, "busy" for 429 and 5xx.
AppleMay(p) ==
    IF wall - push[p].token > ExpireAfter THEN {"refused"}
    ELSE {"accepted", "busy", "refused", "unregistered"}

\* The rest of send: the body with the reason may be unreadable.
AppleAnswers(p) ==
    /\ push[p].at = "apple"
    /\ \E answer \in AppleMay(p), readable \in BOOLEAN :
          Moves(p, [push[p] EXCEPT !.at = "result", !.token = 0, !.late = FALSE, !.apple = answer,
                     !.result = IF answer = "accepted" THEN Accepted
                                ELSE Failure(answer = "busy",
                                             answer = "unregistered" /\ readable)])
    /\ UNCHANGED <<wall, route, bundle, cached, mints, restarts>>

\* The connection breaks or ten seconds pass: Apple may have taken it or not.
AppleUnheard(p) ==
    /\ push[p].at = "apple"
    /\ \E answer \in AppleMay(p) \cup {"nothing"} :
          Moves(p, [push[p] EXCEPT !.at = "result", !.token = 0, !.late = FALSE, !.apple = answer])
    /\ UNCHANGED <<wall, route, bundle, cached, mints, restarts>>

\* relay_notification and IntoResponse for ApiError: a DeliveryFailure travels
\* in the body, any other error is a bare 502.
RelayReply(c) ==
    CASE c.result = NoVerdict -> [c EXCEPT !.at = "reply", !.reply = "5xx"]
      [] c.result = Accepted -> [c EXCEPT !.at = "reply", !.reply = "200"]
      [] OTHER -> [c EXCEPT !.at = "reply", !.body = c.result,
                            !.reply = IF c.result.retryable THEN "5xx" ELSE "4xx"]

\* The provider returns: to the worker, or to the relay's handler.
ProviderReturns(p) ==
    /\ push[p].at = "result"
    /\ Moves(p, IF route = "relay" THEN RelayReply(push[p])
               ELSE Concluded(push[p],
                      IF push[p].result = NoVerdict THEN Unheard ELSE push[p].result))
    /\ UNCHANGED <<wall, route, bundle, cached, mints, restarts>>
----------------------------------------------------------------------------
\* The process that signs restarts: the cache is gone, and so are the calls in
\* it; a server that waits for the relay loses its connection.
SignerRestarts ==
    /\ restarts < MaxRestarts /\ route # "none"
    /\ restarts' = restarts + 1
    /\ cached' = NoToken /\ mints' = <<>>
    /\ push' = [p \in Pushes |->
                  CASE push[p].at = "idle" -> push[p]
                    [] push[p].at # "idle" /\ route = "direct" -> NoPush
                    [] OTHER -> Concluded(push[p], Unheard)]
    /\ UNCHANGED <<wall, route, bundle>>

InFlight(c) == c.at \in {"clock", "apple"}

ClockTicks ==
    /\ wall < MaxWall
    /\ \A p \in Pushes : ~(InFlight(push[p]) /\ push[p].late)
    /\ wall' = wall + 1
    /\ push' = [p \in Pushes |-> [push[p] EXCEPT !.late = InFlight(push[p])]]
    /\ UNCHANGED <<route, bundle, cached, mints, restarts>>

PathStep(p) ==
    \/ PushRequest(p) \/ ServerGivesUp(p) \/ RelayUnheard(p) \/ ServerHears(p)
    \/ RelayReceives(p) \/ ReadsClock(p) \/ TakesToken(p) \/ ProviderReturns(p)
    \/ AppleAnswers(p) \/ AppleUnheard(p)

PathNext == (\E p \in Pushes : PathStep(p)) \/ SignerRestarts \/ ClockTicks

PathSpec == PathInit /\ [][PathNext]_pathVars
----------------------------------------------------------------------------
\* Through two processes and whatever answer was lost or cut short: a push
\* counts as accepted only if Apple took it, a token is called invalid only if
\* Apple said so of this send, and one that Apple took is never given up as a
\* failure that no retry could mend.
VerdictsFollowApple ==
    \A p \in Pushes :
        LET v == push[p].verdict
        IN  v # NoVerdict =>
              /\ v.ok => push[p].apple = "accepted"
              /\ v.invalid => push[p].apple = "unregistered"
              /\ ~v.ok /\ ~v.retryable => push[p].apple # "accepted"

\* Apple's limits (auth.rs): no send carries a provider token that has expired
\* by the time it is read, and a process signs no two within the update gap,
\* although senders read the clock before they take the lock.
ProviderTokensWithinLimits ==
    /\ \A p \in Pushes : push[p].at = "apple" => wall - push[p].token <= ExpireAfter
    /\ \A i \in 2..Len(mints) : mints[i] - mints[i - 1] >= UpdateGap
==============================================================================
