--------------------------------- MODULE Probes ---------------------------------
(***************************************************************************)
(* The "test" buttons of the "enable Codex" page: doProbe and doTestAll of *)
(* src/web/src/pages/codex/CodexEnable.tsx, the rows of ProviderBlock.tsx, *)
(* the route probe-model of src/src/admin/router.ts and the retries it     *)
(* goes through in src/src/upstream/openaiCompatClient.ts.                 *)
(*                                                                         *)
(* A probe races the server's timer against an upstream that may hang at   *)
(* any point, while the page may ask for the same row again, test all rows *)
(* at once or be loaded anew, and the server may start again with other    *)
(* keys.  The two wire formats a probe is posted in do not differ here.    *)
(***************************************************************************)
EXTENDS Naturals, SequencesExt

CONSTANTS
  Rows,          \* rows of the page: a provider and a model
  MaxReposts,    \* MIMO2CODEX_UPSTREAM_MAX_RETRIES
  MaxProbes,     \* bound: probes that are asked for
  MaxDisruptions \* bound: restarts of the server and loads of the page

ASSUME ProbesAssumption == IsFiniteSet(Rows) /\ {MaxReposts, MaxProbes, MaxDisruptions} \subseteq Nat

VARIABLES
  keys,          \* of each row's provider on the server: "keyed", "bare" or "unknown"
  listed,        \* the rows that had a key when the page was loaded
  buttons,       \* probes of the page: whether a row's button spins, and its badge
  testing,       \* testingAll
  probes,        \* the probes asked for since the page was loaded, in order
  restarts

probesVars == <<keys, listed, buttons, testing, probes, restarts>>
probePage == <<buttons, testing, listed>>

NoBadge == [code |-> "none", of |-> 0]
NoTests == [t \in Rows |-> [running |-> FALSE, badge |-> NoBadge]]
KeyedRows == {t \in Rows : keys[t] = "keyed"}

--------------------------------------------------------------------------------
(* The page *)

\* A probe of a row; whole: asked for by the test of all rows.
Asked(t, whole) ==
  [row |-> t, whole |-> whole, at |-> "asked", tries |-> 0, final |-> FALSE,
   code |-> "none", heard |-> FALSE]

Ask(ts, whole) ==
  /\ Len(probes) + Cardinality(ts) <= MaxProbes
  /\ probes' = probes \o [k \in 1..Cardinality(ts) |-> Asked(SetToSeq(ts)[k], whole)]
  /\ buttons' = [t \in Rows |-> IF t \in ts THEN [running |-> TRUE, badge |-> NoBadge] ELSE buttons[t]]
  /\ UNCHANGED <<keys, listed, restarts>>

\* The button of a row spins while its probe runs, and a spinning button is dead.
Click(t) == t \in listed /\ ~buttons[t].running /\ Ask({t}, FALSE) /\ UNCHANGED testing

\* doTestAll asks for every row with a key, whether or not it is being tested.
TestAll == ~testing /\ Ask(listed, TRUE) /\ testing' = TRUE

\* An answer, or the failure of the request, is the row's badge.
Hear(n) ==
  /\ probes[n].at = "replied" /\ ~probes[n].heard
  /\ probes' = [probes EXCEPT ![n].heard = TRUE]
  /\ buttons' = [buttons EXCEPT ![probes[n].row] =
                [running |-> FALSE, badge |-> [code |-> probes[n].code, of |-> n]]]
  /\ UNCHANGED <<keys, listed, testing, restarts>>

\* The probes Promise.all waits for.
Outstanding == {n \in DOMAIN probes : probes[n].whole /\ ~probes[n].heard}

EndTest ==
  /\ testing /\ Outstanding = {}
  /\ testing' = FALSE
  /\ UNCHANGED <<keys, listed, buttons, probes, restarts>>

\* "Cleared on page reload": the server goes on with what the page before asked
\* for, but nobody hears of it and it leaves nothing behind.
Reload ==
  /\ restarts < MaxDisruptions /\ restarts' = restarts + 1
  /\ listed' = KeyedRows
  /\ buttons' = NoTests /\ testing' = FALSE /\ probes' = <<>>
  /\ UNCHANGED keys

--------------------------------------------------------------------------------
(* The server and the upstream *)

Moves(n, from, p) ==
  /\ probes[n].at \in from
  /\ probes' = [probes EXCEPT ![n] = p]
  /\ UNCHANGED <<keys, probePage, restarts>>

At(n, place) == [probes[n] EXCEPT !.at = place]
Replied(n, code) == [probes[n] EXCEPT !.at = "replied", !.code = code, !.tries = 0, !.final = FALSE]

\* The route: an unknown provider is a refused request, one without a key is
\* told as that, and for the others the timer starts.
Arrive(n) ==
  Moves(n, {"asked"}, CASE keys[probes[n].row] = "unknown" -> Replied(n, "request_failed")
                        [] keys[probes[n].row] = "bare"    -> Replied(n, "no_api_key")
                        [] OTHER                           -> At(n, "waiting"))

\* postUpstream: the upstream answers with success, with a status that is tried
\* again, with one that is not, or cannot be reached.
ProbeUpstream(n) ==
  \/ Moves(n, {"waiting"}, At(n, "body"))
  \/ Moves(n, {"waiting"}, [At(n, "refusal") EXCEPT !.final = probes[n].tries = MaxReposts])
  \/ Moves(n, {"waiting"}, [At(n, "refusal") EXCEPT !.final = TRUE])
  \/ Moves(n, {"waiting"}, IF probes[n].tries < MaxReposts THEN At(n, "sleeping")
                           ELSE Replied(n, "upstream_unreachable"))

\* readSnippet, which is content with half a text.
SnippetRead(n) == Moves(n, {"refusal"}, IF probes[n].final THEN Replied(n, "refused") ELSE At(n, "sleeping"))

SleepOver(n) == Moves(n, {"sleeping"}, [At(n, "waiting") EXCEPT !.tries = @ + 1])

\* The body of a success is JSON or it is not; a JSON of an error is a success.
BodyRead(n) == \E code \in {"ok", "unknown"} : Moves(n, {"body"}, Replied(n, code))

\* Seeded fault: the timer is cleared when the headers have come.
Timeout_UntilHeaders(n) == Moves(n, {"waiting", "sleeping"}, Replied(n, "timeout"))

\* After PROBE_TIMEOUT_MS the signal ends whatever the probe waits for.  In the
\* text of a refusal it only cuts the text short.
Timeout(n) ==
  \/ Moves(n, {"waiting", "sleeping", "body"}, Replied(n, "timeout"))
  \/ Moves(n, {"refusal"}, Replied(n, IF probes[n].final THEN "refused" ELSE "timeout"))

\* The server starts again: what it had under way breaks off on the page, and
\* the providers may have other keys.
ServerRestart ==
  /\ restarts < MaxDisruptions /\ restarts' = restarts + 1
  /\ keys' \in [Rows -> {"keyed", "bare", "unknown"}]
  /\ probes' = [n \in DOMAIN probes |-> IF probes[n].at = "replied" THEN probes[n]
                                        ELSE Replied(n, "request_failed")]
  /\ UNCHANGED probePage

--------------------------------------------------------------------------------
ProbesInit ==
  /\ keys \in [Rows -> {"keyed", "bare"}] /\ listed = KeyedRows
  /\ buttons = NoTests /\ testing = FALSE /\ probes = <<>> /\ restarts = 0

ProbesNext ==
  \/ \E t \in Rows : Click(t)
  \/ TestAll \/ EndTest \/ Reload \/ ServerRestart
  \/ \E n \in DOMAIN probes :
       Hear(n) \/ Arrive(n) \/ ProbeUpstream(n) \/ SnippetRead(n) \/ SleepOver(n) \/ BodyRead(n) \/ Timeout(n)

\* The server reads a request that has come and its timers fire, the page hears
\* what was answered; nothing is asked of the upstream.
ProbesFairness ==
  /\ WF_probesVars(EndTest)
  /\ \A n \in 1..MaxProbes :
       WF_probesVars(n \in DOMAIN probes /\ (Arrive(n) \/ Timeout(n) \/ Hear(n)))

ProbesSpec == ProbesInit /\ [][ProbesNext]_probesVars /\ ProbesFairness

--------------------------------------------------------------------------------
(* Properties, in three parts *)

\* A badge is the outcome of a probe of its own row, asked for since the page was
\* loaded, and a button spins only while a probe of its row is on its way: however
\* single tests, the test of all rows and restarts overlap (CodexEnable.tsx,
\* doProbe; types.ts: "running drives the button spinner").
BadgesAreTrue ==
  \A t \in Rows :
    /\ buttons[t].badge # NoBadge =>
         LET p == probes[buttons[t].badge.of]
         IN p.row = t /\ p.heard /\ p.code = buttons[t].badge.code
    /\ buttons[t].running =>
         \E n \in DOMAIN probes : probes[n].row = t /\ ~probes[n].heard

\* When the test of all rows ends, every row it was for has been answered: it
\* shows a badge, unless the row alone is being tested again (CodexEnable.tsx,
\* doTestAll).
TestIsWhole ==
  [][testing /\ ~testing' /\ probes' = probes =>
       \A t \in listed :
         \/ buttons[t].badge # NoBadge
         \/ \E n \in DOMAIN probes : probes[n].row = t /\ ~probes[n].whole /\ ~probes[n].heard
    ]_probesVars

\* Nothing spins for ever, though the upstream hangs at whatever point it likes
\* (admin/router.ts: "so a hung upstream can't lock up the admin UI").
ProbesEnd ==
  /\ \A t \in Rows : buttons[t].running ~> ~buttons[t].running
  /\ testing ~> ~testing

\* All three: the page tells the truth about its tests at every moment, and comes
\* to rest (CodexEnable.tsx, doProbe and doTestAll; admin/router.ts, probe-model).
ProbesSound == []BadgesAreTrue /\ TestIsWhole /\ ProbesEnd
================================================================================
