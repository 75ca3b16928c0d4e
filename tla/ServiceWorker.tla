---------------------------- MODULE ServiceWorker ----------------------------
(***************************************************************************)
(* The service worker of an installed app: which answers it keeps, what it *)
(* answers with when the network fails, and how a new worker takes over    *)
(* from the old.  In the model a path is its kind, and a build has one     *)
(* asset, named after its contents.                                        *)
(***************************************************************************)
EXTENDS Wire

CONSTANTS
  Builds,      \* builds deployed in turn; a deployment may go back to one
  Straggling,  \* whether a page may ask for its asset once its build is gone
  MaxRequests, \* requests, and writes to the cache, under way at most
  MaxMoves     \* what the user and the operator do, all told

BuildsAssumption == Builds \subseteq Nat /\ Straggling \in BOOLEAN

VARIABLES
  view,    \* the browser: its workers, their caches and the page on show
  wire,    \* what the workers fetch, and what they are writing
  world,   \* what is deployed
  moves    \* how much was done

vars == <<view, wire, world, moves>>

Workers == 1..2              \* two versions of sw.js, each with a CACHE of its own
Paths == {"route", "asset", "docs", "api"}

Acts == moves < MaxMoves /\ moves' = moves + 1 /\ Len(wire) < MaxRequests

(* Answers.                                                                *)
Page(b) == [ok |-> TRUE, redirected |-> FALSE, html |-> TRUE, body |-> <<"app", b>>]
Script(b) == [ok |-> TRUE, redirected |-> FALSE, html |-> FALSE, body |-> <<"asset", b>>]
BadGateway == [ok |-> FALSE, redirected |-> FALSE, html |-> TRUE, body |-> <<"error", 0>>]
Reference == [ok |-> TRUE, redirected |-> FALSE, html |-> TRUE, body |-> <<"reference", 0>>]
SignIn(b) == [Page(b) EXCEPT !.redirected = TRUE]

AppPages == {<<"app", b>> : b \in Builds}

-----------------------------------------------------------------------------
(* Workers                                                                 *)

Empty == [open |-> FALSE, shell |-> {}, assets |-> {}]

(* The page registers sw.js once it has loaded; the browser compares what  *)
(* it gets with the worker it has.  A new one fetches the shell.           *)
register ==
  /\ Acts /\ view.installing = 0 /\ world.worker # view.active
  /\ view' = [view EXCEPT !.installing = world.worker]
  /\ wire' = Send(wire, "shell", [worker |-> world.worker])
  /\ UNCHANGED world

(* Variant: the worker does not wait for the shell.                        *)
install_AtOnce(added) ==
  [view EXCEPT !.installed = TRUE, !.caches[view.installing].open = TRUE,
               !.caches[view.installing].shell = added]

(* cache.add keeps the shell, or rejects an answer that is not good: then  *)
(* the worker is thrown away, and its cache stays open and empty.          *)
install(added) ==
  IF added = {}
  THEN [view EXCEPT !.installing = 0, !.caches[view.installing].open = TRUE]
  ELSE [view EXCEPT !.installed = TRUE, !.caches[view.installing].open = TRUE,
                    !.caches[view.installing].shell = added]

ReceiveShell(i) ==
  /\ i \in Settled(wire) /\ wire[i].kind = "shell"
  /\ view' = install(IF wire[i].is = "ok" /\ Data(wire[i]).ok THEN {Data(wire[i]).body} ELSE {})
  /\ wire' = Received(wire, i)
  /\ UNCHANGED <<world, moves>>

(* A worker that skips waiting takes over once the old one has nothing     *)
(* left to do, writes it was told to wait until included.                  *)
activate ==
  /\ view.installed /\ ~Out(wire, {"navigate", "fetch", "put"})
  /\ view' = [view EXCEPT !.active = view.installing, !.installing = 0, !.installed = FALSE,
                          !.caches = [w \in Workers |->
                                        IF w = view.installing THEN view.caches[w] ELSE Empty]]
  /\ UNCHANGED <<wire, world, moves>>

(* caches.match asks the caches in the order they were opened.             *)
Holders == {w \in Workers : view.caches[w].shell # {}}
First(S) == CHOOSE w \in S : \A x \in S : w <= x
Shell == IF Holders = {} THEN {} ELSE view.caches[First(Holders)].shell
Kept(b) == UNION {{a.body : a \in {x \in view.caches[w].assets : x.build = b}} : w \in Workers}

(* A write is under way until it lands; storage may refuse it.             *)
cachePut(w, key, body) == Send(w, "put", [worker |-> view.active, key |-> key, body |-> body])

-----------------------------------------------------------------------------
(* Fetch                                                                   *)

(* What the worker leaves to the network.                                  *)
Intercepts(path) == path \notin {"api", "docs"}

navigate(path) ==
  /\ Acts /\ view.active # 0 /\ Intercepts(path)
  /\ wire' = Send(wire, "navigate", [path |-> path])
  /\ UNCHANGED <<view, world>>

(* Only a good page may become the shell.                                  *)
MayBeShell(answer) == answer.ok /\ ~answer.redirected /\ answer.html

(* Network first, the shell when there is none.                            *)
ReceiveNavigation(i) ==
  /\ i \in Settled(wire) /\ wire[i].kind = "navigate"
  /\ LET w == Received(wire, i) IN
     IF wire[i].is = "ok"
     THEN LET answer == Data(wire[i]) IN
          /\ view' = [view EXCEPT !.shows = answer.body, !.offline = FALSE]
          /\ wire' = IF MayBeShell(answer) THEN cachePut(w, <<"shell", 0>>, answer.body) ELSE w
     ELSE /\ view' = [view EXCEPT !.shows = IF Shell = {} THEN <<"nothing", 0>>
                                            ELSE CHOOSE s \in Shell : TRUE,
                                  !.offline = TRUE]
          /\ wire' = w
  /\ UNCHANGED <<world, moves>>

(* The page on show needs its asset: cache first.                          *)
loadAsset ==
  /\ Acts /\ view.active # 0 /\ view.shows \in AppPages
  /\ LET b == view.shows[2] IN
     /\ Kept(b) = {}
     /\ Straggling \/ b = world.build
     /\ wire' = Send(wire, "fetch", [build |-> b])
  /\ UNCHANGED <<view, world>>

ReceiveAsset(i) ==
  /\ i \in Settled(wire) /\ wire[i].kind = "fetch"
  /\ LET r == wire[i] IN
     wire' = IF r.is = "ok" /\ Data(r).ok
             THEN cachePut(Received(wire, i), <<"asset", r.arg.build>>, Data(r).body)
             ELSE Received(wire, i)
  /\ UNCHANGED <<view, world, moves>>

Put(i, refused) ==
  /\ i \in DOMAIN wire /\ wire[i].kind = "put"
  /\ LET put == wire[i].arg IN
     view' = IF refused THEN view
             ELSE IF put.key[1] = "shell"
             THEN [view EXCEPT !.caches[put.worker].shell = {put.body}]
             ELSE [view EXCEPT !.caches[put.worker].assets =
                     {a \in @ : a.build # put.key[2]} \union {[build |-> put.key[2], body |-> put.body]}]
  /\ wire' = Received(wire, i)
  /\ UNCHANGED <<world, moves>>

-----------------------------------------------------------------------------
(* The server: nginx, and what may stand before it                         *)

Serve(i) ==
  /\ i \in Waiting(wire) /\ wire[i].kind # "put"
  /\ LET b == world.build
         r == wire[i]
         routed == CASE r.arg.path = "asset" -> {Script(b)}
                     [] r.arg.path = "docs" -> {Reference, SignIn(b)}
                     [] OTHER -> {Page(b)}
         answers == CASE r.kind = "shell" -> {Page(b)}
                      [] r.kind = "fetch" -> {IF r.arg.build = b THEN Script(b) ELSE Page(b)}
                      [] r.kind = "navigate" -> routed
     IN \E answer \in answers \union {BadGateway} : wire' = Ok(wire, i, answer)
  /\ UNCHANGED <<view, world, moves>>

(* No network.                                                             *)
Lose(i) ==
  /\ i \in Waiting(wire) /\ wire[i].kind # "put"
  /\ wire' = Settle(wire, i, "lost")
  /\ UNCHANGED <<view, world, moves>>

Deploy(b, worker) ==
  /\ Acts /\ worker >= world.worker /\ <<b, worker>> # <<world.build, world.worker>>
  /\ Straggling \/ ~Out(wire, {"fetch"})
  /\ world' = [world EXCEPT !.build = b, !.worker = worker]
  /\ UNCHANGED <<view, wire>>

Init ==
  /\ world \in [build : Builds, worker : {1}]
  /\ view = [active |-> 0, installing |-> 0, installed |-> FALSE, caches |-> [w \in Workers |-> Empty],
             shows |-> <<"app", world.build>>, offline |-> FALSE]
  /\ wire = <<>>
  /\ moves = 0

Next ==
  \/ \E i \in DOMAIN wire :
       \/ ReceiveShell(i) \/ ReceiveNavigation(i) \/ ReceiveAsset(i)
       \/ \E refused \in BOOLEAN : Put(i, refused)
       \/ Serve(i) \/ Lose(i)
  \/ \E path \in Paths : navigate(path)
  \/ \E b \in Builds, worker \in Workers : Deploy(b, worker)
  \/ register \/ activate \/ loadAsset

Spec == Init /\ [][Next]_vars

-----------------------------------------------------------------------------
(* Properties                                                              *)

(* Without a network an installed app opens, whatever was last navigated   *)
(* to, failed, deployed or half installed: on a page of its own, never on  *)
(* an error, the API reference, an asset or nothing (sw.js:24-36, 84-93).  *)
OfflineShowsTheApp ==
  /\ view.active # 0 => Shell # {} /\ Shell \subseteq AppPages
  /\ view.offline => view.shows \in AppPages

(* "The filename changes when the content does, so a hit can never be      *)
(* stale" (sw.js:104-105): what is kept under an asset's name is that      *)
(* asset.  With Straggling it is not: nginx answers the name of an asset   *)
(* that is gone with index.html and 200, and the worker keeps it.          *)
HitsAreTheAsset ==
  \A w \in Workers : \A a \in view.caches[w].assets : a.body = <<"asset", a.build>>
=============================================================================
