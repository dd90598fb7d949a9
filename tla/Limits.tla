------------------------------- MODULE Limits -------------------------------
(***************************************************************************)
(* What slows clients down: requests per address and per wallet, counted   *)
(* in Redis or in memory (middleware/rateLimit.ts), the breaker in front   *)
(* of acceptance (services/circuitBreakerService.ts, routes/ideas.ts), and *)
(* failed attempts to sign in as an administrator (routes/admin.ts).       *)
(*                                                                         *)
(* A key is a limiter with a client: an address, a wallet, or an address   *)
(* that asks for /admin.  The one breaker is called "accept".              *)
(***************************************************************************)
EXTENDS Access

CONSTANTS
    Clients,
    MaxRequests,        \* MaxRequests[k], Window[k]: for k "ip", "wallet", "admin", "accept"
    Window,
    ResetTimeout

\* An open breaker stays open for longer than it counts: five minutes to one.
ASSUME LimitsAssumption ==
    /\ MaxRequests \in [{"ip", "wallet", "admin", "accept"} -> Nat]
    /\ Window \in [{"ip", "wallet", "admin", "accept"} -> Nat]
    /\ ResetTimeout \in Nat /\ ResetTimeout >= Window["accept"]

VARIABLES
    redis,              \* external: counters in Redis, each with its expiry or without
    redisAvailable,
    counts,             \* requestCounts and walletCounts, by key
    breaker,            \* the state of the breaker
    failedAttempts,     \* each client's failures that are remembered, by their place in answers
    answers,            \* history: key, time and answer of what was limited
    resets,             \* history: resets of the breaker by hand
    generation,         \* history: resets of the breaker
    straddled           \* history: an error was counted after a reset that came after
                        \* its acceptance

limitVars == <<redis, redisAvailable, counts, breaker, failedAttempts, answers, resets, generation, straddled>>

Key(kind, client) == [kind |-> kind, client |-> client]
Keys2 == [kind : {"ip", "wallet"}, client : Clients]
Zero == [count |-> 0, until |-> None]

Closed == [isOpen |-> FALSE, trippedAt |-> None, requests |-> 0, errors |-> 0, accepts |-> 0, since |-> clock]

LimitsInit ==
    /\ redis = [k \in Keys2 |-> Zero] /\ redisAvailable = TRUE
    /\ counts = [k \in Keys2 |-> Zero]
    /\ breaker = Closed
    /\ failedAttempts = [c \in Clients |-> {}]
    /\ answers = <<>> /\ resets = 0 /\ generation = 0 /\ straddled = FALSE

Note(key, passed) == answers' = Append(answers, [key |-> key, at |-> clock, passed |-> passed])

-----------------------------------------------------------------------------
(* rateLimit on every route, then walletRateLimit under /jobs                *)

\* What a request asks Redis for, unless Redis is given up: isLimitExceeded and
\* isWalletLimitExceeded are the same function for two kinds of keys.
LimitedCall(p, kind, c) ==
    /\ Start(p, [op |-> "limited", step |-> IF redisAvailable THEN "incr" ELSE "memory", key |-> Key(kind, c)])
    /\ UNCHANGED <<accessVars, limitVars>>

WalletLimitedCall(p, c) == Serves("wallet") /\ LimitedCall(p, "wallet", c)

\* A counter of Redis goes when it expires, at the time.
Current(k) == IF redis[k].until # None /\ redis[k].until <= clock THEN Zero ELSE redis[k]

\* A slip: the last request that the limit allows is refused.
DecideEarly(p, key, count) == Note(key, count < MaxRequests[key.kind]) /\ Finish(p)

Decide(p, key, count) == Note(key, count <= MaxRequests[key.kind]) /\ Finish(p)

\* INCR, and EXPIRE by a second command when the counter is new.
Incr(p) ==
    LET k == proc[p].key
        count == Current(k).count + 1
    IN
    /\ At(p, "limited", "incr")
    /\ redis' = [redis EXCEPT ![k] = [Current(k) EXCEPT !.count = count]]
    /\ IF count = 1 THEN Goto(p, "expire") /\ UNCHANGED answers ELSE Decide(p, k, count)
    /\ UNCHANGED <<job, syncs, accessVars, redisAvailable, counts, breaker, failedAttempts, resets, generation, straddled>>
    /\ Quiet

Expire(p) ==
    LET k == proc[p].key IN
    /\ At(p, "limited", "expire")
    /\ redis' = [redis EXCEPT ![k].until = clock + Window[k.kind]]
    /\ Decide(p, k, 1)
    /\ UNCHANGED <<job, syncs, accessVars, redisAvailable, counts, breaker, failedAttempts, resets, generation, straddled>>
    /\ Quiet

\* The connection breaks: Redis is given up until the broker restarts.
RedisFails(p) ==
    /\ proc[p].op = "limited" /\ proc[p].step \in {"incr", "expire"}
    /\ faults < Scenes[scene].faults /\ faults' = faults + 1
    /\ redisAvailable' = FALSE
    /\ Goto(p, "memory")
    /\ UNCHANGED <<scene, job, syncs, starts, applied, again, alone>>
    /\ UNCHANGED <<accessVars, redis, counts, breaker, failedAttempts, answers, resets, generation, straddled>>

CountInMemory(p) ==
    LET k == proc[p].key
        old == counts[k].until = None \/ clock > counts[k].until
        entry == IF old THEN [count |-> 1, until |-> clock + Window[k.kind]]
                 ELSE [counts[k] EXCEPT !.count = @ + 1]
    IN
    /\ At(p, "limited", "memory")
    /\ counts' = [counts EXCEPT ![k] = entry]
    /\ Decide(p, k, entry.count)
    /\ UNCHANGED <<job, syncs, accessVars, redis, redisAvailable, breaker, failedAttempts, resets, generation, straddled>>
    /\ Quiet

-----------------------------------------------------------------------------
(* The breaker: it answers by its count of acceptances, never by isOpen      *)

\* checkAutoReset, then checkTimeWindow, which leaves an open breaker open
Checked ==
    CASE breaker.isOpen /\ clock - breaker.trippedAt > ResetTimeout -> Closed
      [] OTHER -> IF clock - breaker.since > Window["accept"]
                  THEN [Closed EXCEPT !.isOpen = breaker.isOpen, !.trippedAt = breaker.trippedAt]
                  ELSE breaker

Trip(b) == [b EXCEPT !.isOpen = TRUE, !.trippedAt = clock]

NextGeneration == IF Checked # breaker THEN generation + 1 ELSE generation

\* recordAccept is the first thing the route does.
RecordAccept(p) ==
    LET b == [Checked EXCEPT !.accepts = @ + 1, !.requests = @ + 1]
        passed == b.accepts <= MaxRequests["accept"]
    IN
    /\ Start(p, IF passed THEN [op |-> "limitAccept", step |-> "handle", seen |-> NextGeneration]
                ELSE [op |-> "idle"])
    /\ breaker' = IF passed THEN b ELSE Trip(b)
    /\ generation' = NextGeneration
    /\ Note(Key("accept", "-"), passed)
    /\ UNCHANGED <<accessVars, redis, redisAvailable, counts, failedAttempts, resets, straddled>>

\* A slip: the error is counted, its request is not.
ErrorUncounted(p, is5xx) ==
    LET b == [Checked EXCEPT !.errors = IF is5xx THEN @ + 1 ELSE @] IN
    /\ At(p, "limitAccept", "handle")
    /\ breaker' = IF 2 * b.errors > b.requests THEN Trip(b) ELSE b
    /\ generation' = NextGeneration
    /\ straddled' = (straddled \/ proc[p].seen # NextGeneration)
    /\ Finish(p)
    /\ UNCHANGED <<job, syncs, accessVars, redis, redisAvailable, counts, failedAttempts, answers, resets>> /\ Quiet

\* acceptJob answers; or it throws, with a status of 500 or less, and recordError counts
\* the request once more.
AcceptAnswers(p) ==
    /\ At(p, "limitAccept", "handle")
    /\ Finish(p)
    /\ UNCHANGED <<job, syncs, accessVars, limitVars>> /\ Quiet

RecordError(p, is5xx) ==
    LET b == [Checked EXCEPT !.requests = @ + 1, !.errors = IF is5xx THEN @ + 1 ELSE @] IN
    /\ At(p, "limitAccept", "handle")
    /\ breaker' = IF 2 * b.errors > b.requests THEN Trip(b) ELSE b
    /\ generation' = NextGeneration
    /\ straddled' = (straddled \/ proc[p].seen # NextGeneration)
    /\ Finish(p)
    /\ UNCHANGED <<job, syncs, accessVars, redis, redisAvailable, counts, failedAttempts, answers, resets>> /\ Quiet

-----------------------------------------------------------------------------
(* requireAdminAuth, and the routes of the breaker                           *)

AdminRefused(p, c) ==
    LET recent == {n \in failedAttempts[c] : clock - answers[n].at < Window["admin"]}
        attempts == recent \cup {Len(answers) + 1}
    IN
    /\ Start(p, [op |-> "idle"])
    /\ failedAttempts' = [failedAttempts EXCEPT ![c] = attempts]
    /\ Note(Key("admin", c), Cardinality(attempts) <= MaxRequests["admin"])
    /\ UNCHANGED <<accessVars, redis, redisAvailable, counts, breaker, resets, generation, straddled>>

\* With the token, however many attempts have failed.
GetBreakerStatus(p, c) ==
    /\ Start(p, [op |-> "idle"])
    /\ failedAttempts' = [failedAttempts EXCEPT ![c] = {}]
    /\ breaker' = Checked /\ generation' = NextGeneration
    /\ UNCHANGED <<accessVars, redis, redisAvailable, counts, answers, resets, straddled>>

ResetBreaker(p, c) ==
    /\ Start(p, [op |-> "idle"])
    /\ failedAttempts' = [failedAttempts EXCEPT ![c] = {}]
    /\ breaker' = Closed /\ generation' = generation + 1 /\ resets' = resets + 1
    /\ UNCHANGED <<accessVars, redis, redisAvailable, counts, answers, straddled>>

LimitArrives(p) ==
    \/ \E c \in Clients :
          \/ Serves("ip") /\ LimitedCall(p, "ip", c)
          \/ WalletLimitedCall(p, c)
          \/ Serves("operator") /\ (AdminRefused(p, c) \/ GetBreakerStatus(p, c) \/ ResetBreaker(p, c))
    \/ Serves("breaker") /\ RecordAccept(p)

LimitStep(p) ==
    /\ proc[p].op \in {"limited", "limitAccept"}
    /\ \/ Incr(p) \/ Expire(p) \/ RedisFails(p) \/ CountInMemory(p)
       \/ AcceptAnswers(p) \/ \E is5xx \in BOOLEAN : RecordError(p, is5xx)

\* Only Redis survives a restart.
ForgetLimits ==
    /\ redisAvailable' = TRUE /\ counts' = [k \in Keys2 |-> Zero]
    /\ breaker' = Closed /\ generation' = generation + 1
    /\ failedAttempts' = [c \in Clients |-> {}]
    /\ UNCHANGED <<redis, answers, resets, straddled>>

-----------------------------------------------------------------------------
(* Properties *)

LimitsTypeOK ==
    /\ \A k \in Keys2 : redis[k].count \in Nat /\ counts[k].count \in Nat
    /\ breaker.errors <= breaker.requests /\ breaker.accepts <= breaker.requests
    /\ breaker.isOpen => breaker.trippedAt <= clock

\* Who is refused has asked too often within a window: at the breaker always, of the
\* counters until requests overlap, or one ends between INCR and EXPIRE and leaves a
\* counter that never expires (rateLimit.ts 77-106, 142-168, admin.ts 17-60).
RefusedAskedOften ==
    \A n \in DOMAIN answers :
        LET key == answers[n].key IN
        ~answers[n].passed /\ (key.kind \in {"ip", "wallet"} => alone /\ faults = 0) =>
            Cardinality({m \in 1..n : /\ answers[m].key = key
                                      /\ answers[m].at >= answers[n].at - Window[key.kind]})
                > MaxRequests[key.kind]

\* The windows are fixed, not sliding: in the time of one window twice the limit can
\* pass, at the breaker thrice, for it counts anew when its window ends and again when
\* it closes by itself; and as much again for each reset by hand, and twice that for
\* each restart or loss of Redis, but no more (circuitBreakerService.ts 28-49).
Periods(kind) == IF kind = "accept" THEN 3 ELSE 2

PassedAreBounded ==
    \A n \in DOMAIN answers :
        LET key == answers[n].key IN
        key.kind # "admin" =>
            Cardinality({m \in n..Len(answers) : /\ answers[m].key = key /\ answers[m].passed
                                                 /\ answers[m].at < answers[n].at + Window[key.kind]})
                <= (Periods(key.kind) + 2 * faults + resets) * MaxRequests[key.kind]

\* A failed acceptance counts as two requests and one error: the threshold of half
\* cannot be exceeded in a window by errors of its own, and what trips the breaker is
\* its count of acceptances (circuitBreakerService.ts 51-84).
ErrorsAreHalf ==
    ~straddled => /\ 2 * breaker.errors <= breaker.requests
                  /\ breaker.isOpen => \E n \in DOMAIN answers : answers[n].key.kind = "accept" /\ ~answers[n].passed
=============================================================================
