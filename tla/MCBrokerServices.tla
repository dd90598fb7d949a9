-------------------------- MODULE MCBrokerServices --------------------------
EXTENDS BrokerServices

CONSTANTS a1, a2, j1, k1, g1, g2

MCCalls ==
    {"time", "challenge", "login", "logout", "world", "authorize", "register", "syncRole", "kit",
     "claim", "unclaim", "submit", "lapse", "accepting", "spend", "admin",
     "create", "plan", "board", "ip", "wallet", "operator", "breaker", "page", "cli", "post", "review", "agents"}

\* Requests, how many of them, how many at once, failures; and the start: configuration,
\* who is signed in, registered as what, with which challenges
Scene(kinds, most, atOnce, failures) ==
    [calls |-> kinds, starts |-> most, slots |-> atOnce, faults |-> failures]

Plain == [strict |-> FALSE, trial |-> FALSE, signedIn |-> TRUE, registered |-> None,
          issued |-> <<>>, chain |-> FALSE, keys |-> {None},
          users |-> {a1, a2}, agents |-> {g1}]

Issued(a, purpose) == [account |-> a, purpose |-> purpose, job |-> j1]

SceneNames ==
    {"rework", "settleTwice", "admin", "settle", "chain", "signIn", "signInTwice",
     "verify", "agents", "agentsAgain", "kit", "signed", "refused", "unknown", "keys",
     "keysTwice", "chainAgain", "spend", "ideas", "plan", "planLost", "board", "limit",
     "wallet", "breaker", "work", "workLost", "command", "workDemo", "workMixed", "post",
     "postAgain", "postNew", "postDemo", "postTwo", "review", "reviewAgain", "reviewDemo",
     "setup", "setupDemo", "setupAgain", "operator"}

\* By cases, the scenes with the most states first: TLC evaluates them at every use.
MCScenes ==
    [s \in SceneNames |->
        CASE s = "rework" -> Scene({"claim", "submit", "accepting"}, 5, 1, 0)
          [] s = "settleTwice" -> Scene({"claim", "submit", "accepting"}, 4, 2, 0)
          [] s = "admin" -> Scene({"admin"}, 3, 2, 1)
          [] s = "settle" -> Scene({"claim", "submit", "accepting"}, 3, 1, 1)
          [] s = "chain" -> Scene({"claim", "unclaim", "lapse"}, 2, 2, 0)
          [] s = "signIn" -> Scene({"time", "challenge", "login", "logout"}, 3, 1, 1)
          [] s = "signInTwice" -> Scene({"challenge", "login", "logout"}, 3, 2, 0)
          [] s = "verify" -> Scene({"world", "syncRole"}, 3, 2, 0)
          [] s = "agents" -> Scene({"authorize", "register"}, 2, 2, 1)
          [] s = "agentsAgain" -> Scene({"authorize", "register"}, 3, 1, 0)
          [] s = "kit" -> Scene({"kit"}, 3, 2, 0)
          [] s = "signed" -> Scene({"claim", "unclaim"}, 2, 2, 0)
          [] s = "refused" -> Scene({"authorize", "claim", "submit"}, 2, 2, 0)
          [] s = "unknown" -> Scene({"authorize", "register", "claim"}, 3, 1, 0)
          [] s = "keys" -> Scene({"claim", "submit", "time"}, 2, 1, 0)
          [] s = "keysTwice" -> Scene({"claim", "submit"}, 2, 2, 0)
          [] s = "chainAgain" -> Scene({"claim", "unclaim"}, 3, 1, 0)
          [] s = "spend" -> Scene({"claim", "spend", "lapse"}, 2, 2, 0)
          [] s = "ideas" -> Scene({"create"}, 2, 2, 0)
          [] s = "plan" -> Scene({"create", "plan"}, 3, 2, 0)
          [] s = "planLost" -> Scene({"create", "plan"}, 3, 1, 1)
          [] s = "board" -> Scene({"create", "plan", "board"}, 3, 2, 0)
          [] s = "limit" -> Scene({"ip", "time"}, 4, 2, 1)
          [] s = "wallet" -> Scene({"ip", "wallet", "time"}, 4, 1, 0)
          [] s = "breaker" -> Scene({"breaker", "time"}, 4, 2, 0)
          [] s = "work" -> Scene({"page"}, 2, 2, 0)
          [] s = "workLost" -> Scene({"page"}, 3, 1, 1)
          [] s = "command" -> Scene({"cli"}, 3, 1, 1)
          [] s = "workDemo" -> Scene({"page"}, 2, 2, 1)
          [] s = "workMixed" -> Scene({"page", "cli"}, 2, 2, 0)
          [] s = "post" -> Scene({"post"}, 4, 1, 0)
          [] s = "postAgain" -> Scene({"post"}, 3, 1, 1)
          [] s = "postNew" -> Scene({"post"}, 3, 1, 1)
          [] s = "postDemo" -> Scene({"post"}, 3, 1, 0)
          [] s = "postTwo" -> Scene({"post"}, 3, 2, 0)
          [] s = "review" -> Scene({"review"}, 3, 2, 0)
          [] s = "reviewAgain" -> Scene({"review"}, 3, 1, 1)
          [] s = "reviewDemo" -> Scene({"review"}, 3, 2, 0)
          [] s = "setup" -> Scene({"agents"}, 4, 1, 1)
          [] s = "setupDemo" -> Scene({"agents"}, 4, 2, 1)
          [] s = "setupAgain" -> Scene({"agents"}, 3, 2, 0)
          [] s = "operator" -> Scene({"breaker", "operator", "time"}, 3, 1, 1)]

MCSettings ==
    [s \in SceneNames |->
        CASE s \in {"chain", "chainAgain", "rework", "admin"} -> [Plain EXCEPT !.chain = TRUE]
          [] s \in {"settle", "settleTwice"} -> [Plain EXCEPT !.chain = TRUE, !.users = {a2}]
          [] s \in {"signIn", "signInTwice"} -> [Plain EXCEPT !.signedIn = FALSE]
          [] s = "verify" -> [Plain EXCEPT !.strict = TRUE]
          [] s = "kit" -> [Plain EXCEPT !.trial = TRUE]
          [] s = "signed" ->
                [Plain EXCEPT !.strict = TRUE, !.registered = "worker",
                              !.issued = <<Issued(a1, "worker_claim"), Issued(a2, "worker_claim"),
                                           Issued(a1, "worker_unclaim")>>]
          [] s = "refused" ->
                [Plain EXCEPT !.strict = TRUE, !.registered = "worker",
                              !.issued = <<Issued(a1, "worker_claim"), Issued(a1, "worker_submit")>>]
          [] s \in {"work", "workLost", "command"} -> [Plain EXCEPT !.strict = TRUE, !.registered = "worker"]
          [] s \in {"post", "postAgain"} ->
                [Plain EXCEPT !.strict = TRUE, !.registered = "poster", !.chain = TRUE, !.users = {a1}]
          [] s = "postNew" -> [Plain EXCEPT !.strict = TRUE, !.signedIn = FALSE, !.users = {a1}]
          [] s = "postDemo" -> [Plain EXCEPT !.signedIn = FALSE, !.chain = TRUE, !.users = {a1}]
          [] s = "setup" -> [Plain EXCEPT !.strict = TRUE, !.signedIn = FALSE, !.chain = TRUE, !.users = {a1}]
          [] s = "setupDemo" ->
                [Plain EXCEPT !.signedIn = FALSE, !.chain = TRUE, !.users = {a1}]
          [] s = "setupAgain" ->
                [Plain EXCEPT !.strict = TRUE, !.registered = "worker", !.chain = TRUE, !.users = {a1},
                              !.agents = {g1, g2}]
          [] s = "postTwo" -> [Plain EXCEPT !.strict = TRUE, !.registered = "poster"]
          [] s \in {"review", "reviewAgain"} -> [Plain EXCEPT !.strict = TRUE, !.registered = "reviewer"]
          [] s = "reviewDemo" -> [Plain EXCEPT !.signedIn = FALSE]
          [] s = "workMixed" -> [Plain EXCEPT !.registered = "worker"]
          [] s = "unknown" -> [Plain EXCEPT !.issued = <<Issued(a1, "worker_claim")>>]
          [] s \in {"keys", "keysTwice"} -> [Plain EXCEPT !.keys = {None, k1}]
          [] s = "ideas" -> [Plain EXCEPT !.strict = TRUE, !.registered = "poster"]
          [] OTHER -> Plain]

MCPermissions == {{"claim_jobs", "submit_results"}, {"claim_jobs"}}

MCMaxRequests == [ip |-> 1, wallet |-> 1, admin |-> 1, accept |-> 1]
MCWindow == [ip |-> 1, wallet |-> 1, admin |-> 1, accept |-> 1]

Same == Permutations(Requests)
=============================================================================
