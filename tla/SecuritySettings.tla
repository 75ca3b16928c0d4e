--------------------------- MODULE SecuritySettings --------------------------
(***************************************************************************)
(* The two parts of the profile page that show a secret once: two-factor   *)
(* authentication, with its authenticator's key and its recovery codes, and*)
(* the access token.  Keys, batches of codes and tokens are numbered as the*)
(* API makes them; 0 is none.  A dialog can be closed while what was asked *)
(* in it is on its way, and opened again.                                  *)
(***************************************************************************)
EXTENDS Wire

CONSTANTS
  Hurried,     \* whether the user goes on elsewhere, or asks again, without waiting
  MaxRequests, \* requests outstanding at most
  MaxMoves     \* what the user does, all told

HurriedAssumption == Hurried \in BOOLEAN

VARIABLES
  view,    \* the two parts, and what the user holds: a key, a clipboard
  wire,    \* their requests
  world,   \* the account, as the API has it
  moves    \* how much was done

vars == <<view, wire, world, moves>>

Acts == moves < MaxMoves /\ moves' = moves + 1 /\ Len(wire) < MaxRequests
NoDialog == view.dialog = "none" /\ view.revealed = 0

-----------------------------------------------------------------------------
(* Turning the second factor on                                            *)

openEnable ==
  /\ Acts /\ NoDialog /\ ~view.enabled
  /\ Hurried \/ ~Out(wire, {"setup"})
  /\ view' = [view EXCEPT !.dialog = "enable", !.enablePhase = "scan", !.codes = 0, !.setup = 0,
                          !.enableBusy = TRUE, !.failed = FALSE]
  /\ wire' = Send(wire, "setup", 0)
  /\ UNCHANGED world

ReceiveSetup(i) ==
  /\ i \in Settled(wire) /\ wire[i].kind = "setup"
  /\ LET v == [view EXCEPT !.enableBusy = FALSE] IN
     view' = IF wire[i].is = "ok" THEN [v EXCEPT !.setup = Data(wire[i])] ELSE [v EXCEPT !.failed = TRUE]
  /\ wire' = Received(wire, i)
  /\ UNCHANGED <<world, moves>>

(* The key on screen goes into the authenticator, and its code is sent.    *)
onConfirmEnable ==
  /\ Acts /\ view.dialog = "enable" /\ view.enablePhase = "scan" /\ view.setup # 0 /\ ~view.enableBusy
  /\ view' = [view EXCEPT !.enableBusy = TRUE, !.failed = FALSE, !.scanned = view.setup]
  /\ wire' = Send(wire, "confirm", view.setup)
  /\ UNCHANGED world

(* Variant: the dialog moves on and the codes are not kept.                *)
ConfirmedWith_NoCodes(v, codes) == [v EXCEPT !.enablePhase = "recovery"]

ConfirmedWith(v, codes) == [v EXCEPT !.codes = codes, !.enablePhase = "recovery"]

ReceiveConfirm(i) ==
  /\ i \in Settled(wire) /\ wire[i].kind = "confirm"
  /\ LET w == Received(wire, i) IN
     IF wire[i].is = "ok"
     THEN /\ view' = ConfirmedWith(view, Data(wire[i]))
          /\ wire' = Send(w, "refresh", "enable")
     ELSE /\ view' = [view EXCEPT !.enableBusy = FALSE, !.failed = TRUE]
          /\ wire' = w
  /\ UNCHANGED <<world, moves>>

-----------------------------------------------------------------------------
(* Turning it off, and new recovery codes                                  *)

openDisable ==
  /\ Acts /\ NoDialog /\ view.enabled
  /\ view' = [view EXCEPT !.dialog = "disable", !.failed = FALSE]
  /\ UNCHANGED <<wire, world>>

onDisable ==
  /\ Acts /\ view.dialog = "disable" /\ ~view.promptBusy
  /\ view' = [view EXCEPT !.promptBusy = TRUE, !.failed = FALSE]
  /\ wire' = Send(wire, "disable", view.scanned)
  /\ UNCHANGED world

ReceiveDisable(i) ==
  /\ i \in Settled(wire) /\ wire[i].kind = "disable"
  /\ LET w == Received(wire, i) IN
     IF wire[i].is = "ok"
     THEN /\ view' = IF view.dialog = "disable" THEN [view EXCEPT !.dialog = "none"] ELSE view
          /\ wire' = Send(w, "refresh", "prompt")
     ELSE /\ view' = [view EXCEPT !.promptBusy = FALSE, !.failed = TRUE]
          /\ wire' = w
  /\ UNCHANGED <<world, moves>>

openRegen(v) == [v EXCEPT !.dialog = "regen", !.codes = 0, !.regenPhase = "prompt", !.failed = FALSE]

OpenRegen ==
  /\ Acts /\ NoDialog /\ view.enabled
  /\ view' = openRegen(view)
  /\ UNCHANGED <<wire, world>>

onRegen ==
  /\ Acts /\ view.dialog = "regen" /\ view.regenPhase = "prompt" /\ ~view.promptBusy
  /\ view' = [view EXCEPT !.promptBusy = TRUE, !.failed = FALSE]
  /\ wire' = Send(wire, "regen", view.scanned)
  /\ UNCHANGED world

ReceiveRegen(i) ==
  /\ i \in Settled(wire) /\ wire[i].kind = "regen"
  /\ LET v == [view EXCEPT !.promptBusy = FALSE] IN
     view' = IF wire[i].is = "ok"
             THEN [v EXCEPT !.codes = Data(wire[i]), !.regenPhase = "recovery"]
             ELSE [v EXCEPT !.failed = TRUE]
  /\ wire' = Received(wire, i)
  /\ UNCHANGED <<world, moves>>

(* Every dialog can be closed at any time.                                 *)
CloseDialog ==
  /\ Acts /\ ~NoDialog
  /\ view' = [view EXCEPT !.dialog = "none", !.revealed = 0]
  /\ UNCHANGED <<wire, world>>

(* The auth context's refresh, after a change here or after a section of   *)
(* the page that saved.                                                    *)
RefreshElsewhere ==
  /\ Acts /\ Hurried /\ NoDialog
  /\ wire' = Send(wire, "refresh", "elsewhere")
  /\ UNCHANGED <<view, world>>

ReceiveRefresh(i) ==
  /\ i \in Settled(wire) /\ wire[i].kind = "refresh"
  /\ LET v == IF wire[i].is = "ok" THEN [view EXCEPT !.enabled = Data(wire[i])] ELSE view IN
     view' = CASE wire[i].arg = "enable" -> [v EXCEPT !.enableBusy = FALSE]
               [] wire[i].arg = "prompt" -> [v EXCEPT !.promptBusy = FALSE]
               [] OTHER -> v
  /\ wire' = Received(wire, i)
  /\ UNCHANGED <<world, moves>>

-----------------------------------------------------------------------------
(* Showing a secret                                                        *)

(* A browser may refuse, or have no clipboard: nothing is copied then, and *)
(* nothing said to be.                                                     *)
copyToClipboard(v, secret, allowed) ==
  IF allowed THEN [v EXCEPT !.clipboard = secret, !.copied = secret] ELSE v

RecoveryCodesView(allowed) ==
  /\ Acts
  /\ \/ view.dialog = "enable" /\ view.enablePhase = "recovery"
     \/ view.dialog = "regen" /\ view.regenPhase = "recovery"
  /\ view' = copyToClipboard(view, <<"codes", view.codes>>, allowed)
  /\ UNCHANGED <<wire, world>>

GeneratedToken(allowed) ==
  /\ Acts /\ view.revealed # 0
  /\ view' = copyToClipboard(view, <<"token", view.revealed>>, allowed)
  /\ UNCHANGED <<wire, world>>

-----------------------------------------------------------------------------
(* The access token                                                        *)

Status(v) == CHOOSE s \in v.status : TRUE

ReceiveStatus(i) ==
  /\ i \in Settled(wire) /\ wire[i].kind = "status"
  /\ view' = IF wire[i].is = "ok" THEN [view EXCEPT !.status = {Data(wire[i])}]
             ELSE [view EXCEPT !.lost = TRUE]
  /\ wire' = Received(wire, i)
  /\ UNCHANGED <<world, moves>>

onGenerate(password) ==
  /\ Acts /\ NoDialog /\ view.status = {0} /\ ~view.tokenBusy
  /\ view' = [view EXCEPT !.tokenBusy = TRUE]
  /\ wire' = Send(wire, "generate", [password |-> password, status |-> Status(view)])
  /\ UNCHANGED world

(* Variant: a refusal leaves the panel as it is.                           *)
Refused_AsItIs(v, w, r) == view' = [v EXCEPT !.tokenBusy = FALSE] /\ wire' = w

(* Anything but a wrong password may mean the panel is out of date: the    *)
(* status is read again.                                                   *)
Refused(v, w, r) ==
  IF r.is = "invalid"
  THEN view' = [v EXCEPT !.tokenBusy = FALSE] /\ wire' = w
  ELSE view' = v /\ wire' = Send(w, "reread", r.arg.status)

ReceiveGenerate(i) ==
  /\ i \in Settled(wire) /\ wire[i].kind = "generate"
  /\ LET r == wire[i]
         w == Received(wire, i)
     IN IF r.is = "ok"
        THEN /\ view' = [view EXCEPT !.status = {Data(r)}, !.revealed = Data(r), !.tokenBusy = FALSE]
             /\ wire' = w
        ELSE Refused([view EXCEPT !.lost = @ \/ r.is = "lost"], w, r)
  /\ UNCHANGED <<world, moves>>

(* Failing that, the panel shows what it showed when the user asked.       *)
ReceiveReread(i) ==
  /\ i \in Settled(wire) /\ wire[i].kind = "reread"
  /\ LET v == [view EXCEPT !.tokenBusy = FALSE] IN
     view' = IF wire[i].is = "ok" THEN [v EXCEPT !.status = {Data(wire[i])}]
             ELSE [v EXCEPT !.status = {wire[i].arg}, !.lost = TRUE]
  /\ wire' = Received(wire, i)
  /\ UNCHANGED <<world, moves>>

(* Confirmed in a dialog of its own; nothing disables it meanwhile.        *)
onDelete ==
  /\ Acts /\ NoDialog /\ view.status \notin {{}, {0}}
  /\ Hurried \/ ~Out(wire, {"delete"})
  /\ wire' = Send(wire, "delete", 0)
  /\ UNCHANGED <<view, world>>

ReceiveDelete(i) ==
  /\ i \in Settled(wire) /\ wire[i].kind = "delete"
  /\ view' = IF wire[i].is = "ok" THEN [view EXCEPT !.status = {0}]
             ELSE [view EXCEPT !.lost = TRUE]
  /\ wire' = Received(wire, i)
  /\ UNCHANGED <<world, moves>>

-----------------------------------------------------------------------------
(* The API                                                                 *)

ServeSetup(i) ==
  /\ i \in Waiting(wire) /\ wire[i].kind = "setup"
  /\ IF world.on
     THEN wire' = Settle(wire, i, "refused") /\ UNCHANGED world
     ELSE LET key == world.keys + 1 IN
          /\ world' = [world EXCEPT !.keys = key, !.key = key]
          /\ wire' = Ok(wire, i, key)
  /\ UNCHANGED <<view, moves>>

NewCodes(w) == [w EXCEPT !.batches = @ + 1, !.codes = w.batches + 1]

(* A code proves that the authenticator holds the key stored.              *)
ServeConfirm(i) ==
  /\ i \in Waiting(wire) /\ wire[i].kind = "confirm"
  /\ IF world.on
     THEN wire' = Settle(wire, i, "refused") /\ UNCHANGED world
     ELSE IF wire[i].arg # world.key
     THEN wire' = Settle(wire, i, "invalid") /\ UNCHANGED world
     ELSE /\ world' = [NewCodes(world) EXCEPT !.on = TRUE]
          /\ wire' = Ok(wire, i, world.batches + 1)
  /\ UNCHANGED <<view, moves>>

ServePrompted(i) ==
  /\ i \in Waiting(wire) /\ wire[i].kind \in {"disable", "regen"}
  /\ IF ~world.on \/ wire[i].arg # world.key
     THEN wire' = Settle(wire, i, "invalid") /\ UNCHANGED world
     ELSE IF wire[i].kind = "regen"
     THEN /\ world' = NewCodes(world)
          /\ wire' = Ok(wire, i, world.batches + 1)
     ELSE /\ world' = [world EXCEPT !.on = FALSE, !.key = 0, !.codes = 0]
          /\ wire' = Ok(wire, i, 0)
  /\ UNCHANGED <<view, moves>>

ServeRead(i) ==
  /\ i \in Waiting(wire) /\ wire[i].kind \in {"refresh", "status", "reread"}
  /\ wire' = Ok(wire, i, IF wire[i].kind = "refresh" THEN world.on ELSE world.token)
  /\ UNCHANGED <<view, world, moves>>

ServeGenerate(i) ==
  /\ i \in Waiting(wire) /\ wire[i].kind = "generate"
  /\ IF ~wire[i].arg.password
     THEN wire' = Settle(wire, i, "invalid") /\ UNCHANGED world
     ELSE IF world.token # 0
     THEN wire' = Settle(wire, i, "refused") /\ world' = [world EXCEPT !.elsewhere = FALSE]
     ELSE /\ world' = [world EXCEPT !.tokens = @ + 1, !.token = world.tokens + 1, !.elsewhere = FALSE]
          /\ wire' = Ok(wire, i, world.tokens + 1)
  /\ UNCHANGED <<view, moves>>

ServeDelete(i) ==
  /\ i \in Waiting(wire) /\ wire[i].kind = "delete"
  /\ world' = [world EXCEPT !.token = 0]
  /\ wire' = IF world.token # 0 THEN Ok(wire, i, 0) ELSE Settle(wire, i, "refused")
  /\ UNCHANGED <<view, moves>>

Lose(i) ==
  /\ i \in DOMAIN wire
  /\ wire[i].is = "sent" \/ (wire[i].is = "ok" /\ wire[i].kind \notin {"refresh", "status", "reread"})
  /\ wire' = Settle(wire, i, "lost")
  /\ UNCHANGED <<view, world, moves>>

(* A token made in another tab.                                            *)
OtherTabGenerates ==
  /\ Acts /\ world.token = 0
  /\ world' = [world EXCEPT !.tokens = @ + 1, !.token = world.tokens + 1, !.elsewhere = TRUE]
  /\ UNCHANGED <<view, wire>>

Init ==
  \E on \in BOOLEAN, token \in {0, 1} :
    /\ world = [on |-> on, key |-> IF on THEN 1 ELSE 0, keys |-> 1, codes |-> IF on THEN 1 ELSE 0,
                batches |-> 1, token |-> token, tokens |-> 1, elsewhere |-> FALSE]
    /\ view = [enabled |-> on, dialog |-> "none", enablePhase |-> "scan", regenPhase |-> "prompt",
               setup |-> 0, codes |-> 0, enableBusy |-> FALSE, promptBusy |-> FALSE, failed |-> FALSE,
               scanned |-> world.key, status |-> {}, tokenBusy |-> FALSE, revealed |-> 0,
               lost |-> FALSE, clipboard |-> <<"text", 0>>, copied |-> <<"text", 0>>]
    /\ wire = <<Call("status", 0)>>
    /\ moves = 0

Next ==
  \/ \E i \in DOMAIN wire :
       \/ ServeSetup(i) \/ ServeConfirm(i) \/ ServePrompted(i) \/ ServeRead(i) \/ ServeGenerate(i)
       \/ ServeDelete(i) \/ Lose(i)
       \/ ReceiveSetup(i) \/ ReceiveConfirm(i) \/ ReceiveDisable(i) \/ ReceiveRegen(i)
       \/ ReceiveRefresh(i) \/ ReceiveStatus(i) \/ ReceiveGenerate(i) \/ ReceiveReread(i)
       \/ ReceiveDelete(i)
  \/ openEnable \/ onConfirmEnable \/ openDisable \/ onDisable \/ OpenRegen \/ onRegen
  \/ CloseDialog \/ RefreshElsewhere \/ onDelete \/ OtherTabGenerates
  \/ \E allowed \in BOOLEAN : RecoveryCodesView(allowed) \/ GeneratedToken(allowed)
  \/ \E password \in BOOLEAN : onGenerate(password)

Spec == Init /\ [][Next]_vars

-----------------------------------------------------------------------------
(* Properties                                                              *)

Showing(v) ==
  \/ v.dialog = "enable" /\ v.enablePhase = "recovery"
  \/ v.dialog = "regen" /\ v.regenPhase = "recovery"

(* However dialogs were closed and opened again meanwhile, the codes on    *)
(* screen are the batch that works, a factor that is on is one whose key   *)
(* the user was shown, and what is said to be copied is what the clipboard *)
(* holds (TwoFactorSettings.tsx:63-64, 73-74; clipboard.ts:1-10).          *)
SecondFactorIsInHand ==
  /\ Showing(view) /\ ~Out(wire, {"regen", "disable"}) => view.codes = world.codes /\ view.codes # 0
  /\ world.on => view.scanned = world.key
  /\ view.copied = view.clipboard

(* When nothing is on its way and no answer was lost the panel shows the   *)
(* token there is, one made in another tab included once the API has       *)
(* turned a second one down, and a token revealed is the live one          *)
(* (ApiTokenSettings.tsx:122-127).                                         *)
TokenPanelIsCurrent ==
  /\ wire = <<>> /\ ~view.lost /\ ~world.elsewhere => view.status = {world.token}
  /\ view.revealed # 0 /\ ~Out(wire, {"delete"}) => view.revealed = world.token
=============================================================================
