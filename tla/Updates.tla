-------------------------------- MODULE Updates --------------------------------
(***************************************************************************)
(* Looking for a newer version and installing it: src/util/checkUpdate.ts, *)
(* src/setup/runUpdate.ts and updateMethod.ts, the update routes of        *)
(* src/admin/router.ts, the check src/cli.ts makes when it is started, and *)
(* the banner, the window and the footer of the console.                   *)
(*                                                                         *)
(* The npm registry answers late or never; what it said lies in a cache    *)
(* file for six hours.  An update runs the install steps one after the     *)
(* other, whoever still looks on, and the process leaves after a success.  *)
(***************************************************************************)
EXTENDS Naturals, Sequences, FiniteSets

CONSTANTS
  Viewers,       \* tabs of the console
  Methods,       \* how the program may have been installed
  Newest,        \* bound: the last version number that is published
  MaxRuns        \* bound: the update runs there are, for each method

ASSUME UpdatesAssumption ==
  /\ Methods \subseteq {"npm-global", "git", "desktop", "unknown"}
  /\ Newest \in Nat \ {0} /\ MaxRuns \in [Methods -> Nat]
  /\ {"terminal", "nobody", "background", "start"} \cap Viewers = {}

VARIABLES
  method,        \* detectUpdateMethod
  registry,      \* number of the version behind the tags of the npm registry
  cache,         \* version-check.json
  inflight,      \* inflightUpdateRefresh
  asked,         \* who waits for the registry
  proc,          \* the process: "down", "starting", "updating" at the terminal or "up"
  installed,     \* versions of the sources, the dependencies and the build
  run,           \* the update runs; of each also whether a step of it was killed
  info,          \* versionInfo of each tab
  replies,       \* status replies on their way to each tab
  window         \* the update window of each tab

updatesVars == <<method, registry, cache, inflight, asked, proc, installed, run,
                 info, replies, window>>
checkVars == <<registry, cache, inflight, asked>>
pageVars == <<info, replies, window>>

--------------------------------------------------------------------------------
(* Versions *)

Version(tag, n) == [main |-> n, pre |-> tag = "beta"]
Nothing == [main |-> 0, pre |-> FALSE]

\* compareVersions(a, b) > 0
Newer(a, b) == a.main > b.main \/ (a.main = b.main /\ b.pre /\ ~a.pre)

\* What the console takes for the running version: the name in front of the
\* number is not the one parseCurrentVersion cuts off, so its main part counts
\* as 0 and the dash in it makes it a pre-release.
ConsoleVersion == [main |-> 0, pre |-> TRUE]
RunningVersion == Version("latest", installed.built)

ChannelOf(version) == IF version.pre THEN "beta" ELSE "latest"
AskersVersion(who) == IF who = "start" THEN RunningVersion ELSE ConsoleVersion

\* getCachedStatus
CachedLatest(version) ==
  IF cache.latest # Nothing /\ cache.channel = ChannelOf(version) THEN cache.latest ELSE Nothing

\* decorateStatus, without the preferences that hide the banner
Status(latest, version) ==
  [latest |-> latest, hasUpdate |-> latest # Nothing /\ Newer(latest, version)]

NoInfo == Status(Nothing, Nothing)

--------------------------------------------------------------------------------
(* The registry and the cache *)

Publish ==
  /\ registry < Newest
  /\ registry' = registry + 1
  /\ UNCHANGED <<method, cache, inflight, asked, proc, installed, run, pageVars>>

Expire ==
  /\ cache.fresh
  /\ cache' = [cache EXCEPT !.fresh = FALSE]
  /\ UNCHANGED <<method, registry, inflight, asked, proc, installed, run, pageVars>>

Cached(who, latest) ==
  IF latest = Nothing THEN cache
  ELSE [latest |-> latest, channel |-> ChannelOf(AskersVersion(who)), fresh |-> TRUE]

Tagged(who) == Version(ChannelOf(AskersVersion(who)), registry)

\* refreshCacheInBackground comes back, for the status route or for the button,
\* with what the tag says or with nothing.
RefreshDone_StuckOnFailure(who, latest) ==
  /\ who \in asked \ {"start"}
  /\ asked' = asked \ {who}
  /\ cache' = Cached(who, latest)
  /\ inflight' = (inflight /\ (who # "background" \/ latest = Nothing))
  /\ replies' = IF who = "background" THEN replies
                ELSE [replies EXCEPT ![who] = @ \cup {Status(latest, ConsoleVersion)}]
  /\ UNCHANGED <<method, registry, proc, installed, run, info, window>>

RefreshDone(who, latest) ==
  /\ who \in asked \ {"start"}
  /\ asked' = asked \ {who}
  /\ cache' = Cached(who, latest)
  /\ inflight' = (inflight /\ who # "background")
  /\ replies' = IF who = "background" THEN replies
                ELSE [replies EXCEPT ![who] = @ \cup {Status(latest, ConsoleVersion)}]
  /\ UNCHANGED <<method, registry, proc, installed, run, info, window>>

--------------------------------------------------------------------------------
(* Update runs *)

StepsOf(m) ==
  CASE m = "git" -> <<"pull", "install", "build">>
    [] m = "npm-global" -> <<"replace">>
    [] OTHER -> <<>>

After(step) ==
  CASE step = "pull"    -> [installed EXCEPT !.sources = registry]
    [] step = "install" -> [installed EXCEPT !.packages = installed.sources]
    [] step = "build"   -> [installed EXCEPT !.built = installed.sources]
    [] step = "replace" -> [sources |-> registry, packages |-> registry,
                            built |-> registry]

Over(r) == [run[r] EXCEPT !.state = "over", !.viewer = "nobody", !.left = <<>>]

Whole(d) == d.sources = d.packages /\ d.packages = d.built

StartRun(viewer) ==
  /\ Len(run) < MaxRuns[method]
  /\ run' = Append(run, [state |-> "running", viewer |-> viewer, left |-> StepsOf(method), killed |-> FALSE])

Taken(r) == [run[r] EXCEPT !.left = Tail(@),
                           !.state = IF Tail(run[r].left) = <<>> THEN "succeeded" ELSE "running"]

\* runUpdate: a step that exits with a failure ends the run; one that is killed has
\* no exit code and counts as done ("code ?? 0").
RunStep(r) ==
  /\ run[r].state = "running"
  /\ \/ installed' = After(Head(run[r].left)) /\ run' = [run EXCEPT ![r] = Taken(r)]
     \/ /\ run' = [run EXCEPT ![r] = [Taken(r) EXCEPT !.killed = TRUE]]
        /\ UNCHANGED installed
     \/ /\ run' = [run EXCEPT ![r] = [@ EXCEPT !.state = "failed", !.left = <<>>]]
        /\ UNCHANGED installed
  /\ UNCHANGED <<method, checkVars, proc, pageVars>>

Told(r) == IF run[r].state = "succeeded" THEN "ok" ELSE "fail"

\* The "done" frame, and the window that is still open shows it.  A success
\* makes the process leave half a second later.
Done(r) ==
  /\ run[r].state \in {"succeeded", "failed"} /\ run[r].viewer # "terminal"
  /\ window' = IF run[r].viewer \in Viewers
               THEN [window EXCEPT ![run[r].viewer].phase = Told(r)] ELSE window
  /\ run' = [run EXCEPT ![r] = IF @.state = "succeeded" THEN [@ EXCEPT !.state = "leaving"] ELSE Over(r)]
  /\ UNCHANGED <<method, checkVars, proc, installed, info, replies>>

Running(r) == run[r].state \in {"running", "succeeded", "failed"}

\* Streams that break are an error to the windows that read them.
Broken == [t \in Viewers |-> IF \E r \in DOMAIN run : Running(r) /\ run[r].viewer = t
                             THEN [window[t] EXCEPT !.phase = "error"] ELSE window[t]]

\* process.exit: what the process waited for is gone.  The step a run is at
\* goes on in its own process, but no other step follows it.
Leave(r) ==
  /\ proc' = "down"
  /\ asked' = {} /\ inflight' = FALSE
  /\ window' = Broken
  /\ replies' = [t \in Viewers |-> {}]
  /\ run' = [q \in DOMAIN run |-> Over(q)]
  /\ UNCHANGED <<method, registry, cache, installed, info>>

Exit(r) == run[r].state = "leaving" /\ Leave(r)

ExitTerminal(r) ==
  /\ run[r].viewer = "terminal" /\ run[r].state \in {"succeeded", "failed"}
  /\ Leave(r)

--------------------------------------------------------------------------------
(* The process starts *)

StartProcess ==
  /\ proc = "down"
  /\ \/ proc' = "starting" /\ asked' = asked \cup {"start"}
     \/ proc' = "up" /\ UNCHANGED asked        \* --no-update-check
  /\ UNCHANGED <<method, registry, cache, inflight, installed, run, pageVars>>

\* maybePromptForUpdate: whoever says yes gets a run, or is told the command,
\* and the process leaves either way.
Prompt(latest) ==
  \/ proc' = "up" /\ UNCHANGED run
  \/ /\ latest # Nothing /\ Newer(latest, RunningVersion)
     /\ IF StepsOf(method) = <<>> THEN proc' = "down" /\ UNCHANGED run
        ELSE StartRun("terminal") /\ proc' = "updating"

\* The answer to the check of the start, which outlives the two seconds the
\* start waits for it
StartChecked ==
  \E latest \in {Tagged("start"), Nothing} :
    /\ "start" \in asked
    /\ asked' = asked \ {"start"}
    /\ cache' = Cached("start", latest)
    /\ IF proc = "starting" THEN Prompt(latest) ELSE UNCHANGED <<proc, run>>
    /\ UNCHANGED <<method, registry, inflight, installed, pageVars>>

StartTimesOut ==
  /\ proc = "starting"
  /\ Prompt(CachedLatest(RunningVersion))
  /\ UNCHANGED <<method, checkVars, installed, pageVars>>

--------------------------------------------------------------------------------
(* The console *)

\* buildUpdateStatusPayload, and maybeKickBackgroundRefresh on the way.  Of the
\* page `pending` replies and `waiting` askers are left.
ServeStatus(t, pending, waiting) ==
  IF proc = "up"
  THEN LET stale == ~cache.fresh /\ ~inflight
       IN /\ inflight' = (inflight \/ stale)
          /\ asked' = IF stale THEN waiting \cup {"background"} ELSE waiting
          /\ replies' = [replies EXCEPT ![t] =
               pending \cup {Status(CachedLatest(ConsoleVersion), ConsoleVersion)}]
  ELSE /\ replies' = [replies EXCEPT ![t] = pending]
       /\ asked' = waiting
       /\ UNCHANGED inflight

NobodyWatches(t) == [r \in DOMAIN run |-> IF run[r].viewer = t THEN [run[r] EXCEPT !.viewer = "nobody"]
                                    ELSE run[r]]
Shut == [open |-> FALSE, phase |-> "idle"]

\* A page is loaded; what the one before asked for is lost on it.  (That its
\* check still refreshes the cache is left out.)
Mount(t) ==
  /\ ServeStatus(t, {}, asked \ {t})
  /\ info' = [info EXCEPT ![t] = NoInfo]
  /\ window' = [window EXCEPT ![t] = Shut]
  /\ run' = NobodyWatches(t)
  /\ UNCHANGED <<method, registry, cache, proc, installed>>

\* refreshVersion, three seconds after the page was loaded
AskAgain(t) ==
  /\ ServeStatus(t, replies[t], asked)
  /\ UNCHANGED <<method, registry, cache, proc, installed, run, info, window>>

BannerShown(i) == i.hasUpdate

\* setVersionInfo; the banner takes the window with it when it goes.
Take(t, i) ==
  /\ replies' = [replies EXCEPT ![t] = @ \ {i}]
  /\ info' = [info EXCEPT ![t] = i]
  /\ IF BannerShown(i) THEN UNCHANGED <<window, run>>
     ELSE window' = [window EXCEPT ![t] = Shut] /\ run' = NobodyWatches(t)
  /\ UNCHANGED <<method, checkVars, proc, installed>>

TakeReply(t) == \E i \in replies[t] : Take(t, i)

\* No reply is held back for ever.
TakeNewest(t) == \E i \in replies[t] : i.latest = Version("beta", registry) /\ Take(t, i)

\* "check now"
CheckNow(t) ==
  /\ proc = "up" /\ t \notin asked
  /\ asked' = asked \cup {t}
  /\ UNCHANGED <<method, registry, cache, inflight, proc, installed, run, pageVars>>

OpenWindow(t) ==
  /\ BannerShown(info[t]) /\ method # "desktop" /\ ~window[t].open
  /\ IF proc # "up"
     THEN /\ window' = [window EXCEPT ![t] = [open |-> TRUE, phase |-> "error"]]
          /\ UNCHANGED run
     ELSE IF StepsOf(method) = <<>>
     THEN /\ window' = [window EXCEPT ![t] = [open |-> TRUE, phase |-> "skipped"]]
          /\ UNCHANGED run
     ELSE /\ window' = [window EXCEPT ![t] = [open |-> TRUE, phase |-> "running"]]
          /\ StartRun(t)
  /\ UNCHANGED <<method, checkVars, proc, installed, info, replies>>

\* Closing the window leaves the run to itself.
CloseWindow(t) ==
  /\ window[t].open
  /\ window' = [window EXCEPT ![t] = Shut]
  /\ run' = NobodyWatches(t)
  /\ ServeStatus(t, replies[t], asked)
  /\ UNCHANGED <<method, registry, cache, proc, installed, info>>

--------------------------------------------------------------------------------
UpdatesInit ==
  /\ method \in Methods /\ registry = 1
  /\ cache \in {[latest |-> Nothing, channel |-> "latest", fresh |-> FALSE],
                [latest |-> Version("latest", 1), channel |-> "latest", fresh |-> TRUE]}
  /\ inflight = FALSE /\ asked = {} /\ proc = "down"
  /\ installed = [sources |-> 1, packages |-> 1, built |-> 1]
  /\ run = <<>>
  /\ info = [t \in Viewers |-> NoInfo]
  /\ replies = [t \in Viewers |-> {}]
  /\ window = [t \in Viewers |-> Shut]

UpdatesNext ==
  \/ Publish \/ Expire
  \/ \E who \in Viewers \cup {"background"} : \E latest \in {Tagged(who), Nothing} :
       RefreshDone(who, latest)
  \/ StartProcess \/ StartChecked \/ StartTimesOut
  \/ \E r \in DOMAIN run : RunStep(r) \/ Done(r) \/ Exit(r) \/ ExitTerminal(r)
  \/ \E t \in Viewers : \/ Mount(t) \/ AskAgain(t) \/ TakeReply(t) \/ CheckNow(t)
                        \/ OpenWindow(t) \/ CloseWindow(t)

\* The event loop and the browsers go on, child processes end, time passes; the
\* registry answers now and then.
UpdatesFairness ==
  /\ WF_updatesVars(Expire) /\ WF_updatesVars(StartChecked) /\ WF_updatesVars(StartTimesOut)
  /\ \A who \in Viewers \cup {"background"} :
       WF_updatesVars(\E latest \in {Tagged(who), Nothing} : RefreshDone(who, latest))
  /\ SF_updatesVars(RefreshDone("background", Tagged("background")))
  /\ WF_updatesVars(\E r \in DOMAIN run : RunStep(r) \/ Done(r) \/ Exit(r) \/ ExitTerminal(r))
  /\ \A t \in Viewers : WF_updatesVars(TakeNewest(t))

--------------------------------------------------------------------------------
(* Properties *)

\* An update window that is open and says "running" comes to say something
\* else: the run's end, or the error of a stream that broke because another
\* run's success took the process away.
UpdateTold ==
  \A t \in Viewers : window[t].open /\ window[t].phase = "running"
                       ~> ~window[t].open \/ window[t].phase # "running"

\* While the process stays up, every page that is loaded again and again comes
\* to show the newest version of its tag, for a refresh that failed or was late
\* leaves the way open to the next one.
NewsArrives ==
  \A t \in Viewers :
    <>[](proc = "up") /\ []<><<Mount(t)>>_updatesVars
      => []<>(info[t].latest = Version("beta", registry))

\* Both together: a page that waits hears, of its run or of a new version.
UpdatesHeard == UpdateTold /\ NewsArrives

\* After the only update run there was, the process leaves from a whole
\* installation unless a step was killed: the steps are taken in order and the
\* exit code of each of them is checked.
ExitLeavesWhole ==
  [][proc # "down" /\ proc' = "down" /\ (\E r \in DOMAIN run : run[r].state \in {"leaving", "succeeded"})
       => Whole(installed) \/ Len(run) > 1 \/ run[1].killed]_updatesVars

\* An update is told to all who wait for it and leaves a program that starts.
UpdatesSound == UpdatesHeard /\ ExitLeavesWhole
================================================================================
