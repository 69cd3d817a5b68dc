----------------------------- MODULE LockState -----------------------------
(***************************************************************************)
(* Locking and unlocking: the service worker that keeps the sync password  *)
(* and the keys in its memory (background.ts), chrome.storage and the      *)
(* wrapping key in IndexedDB, and the panels that show the vault           *)
(* (App.tsx).                                                              *)
(*                                                                         *)
(* A handler of the worker stops at every await, and a message of another  *)
(* panel may be handled meanwhile; the browser may stop the worker at any  *)
(* moment, which loses its memory and answers its callers with undefined.  *)
(* A call of chrome.storage takes effect when it is made.                  *)
(*                                                                         *)
(* A password opens an envelope or does not: the envelope is represented   *)
(* by the password that opens it.  A panel waits for the answer to one     *)
(* GET_STATE, UNLOCK or LOCK at a time.                                    *)
(***************************************************************************)
EXTENDS Naturals

CONSTANTS
    Panels,
    Passwords,
    NoPassword,
    MaxMinutes,     \* the longest auto-lock time a user chooses
    DefaultMinutes, \* autoLockMinutes before anybody chose (15)
    MaxMessages,    \* bound: messages sent to the worker
    MaxWipes        \* bound: resets of the vault

ASSUME LockAssumption ==
    /\ NoPassword \notin Passwords
    /\ MaxMinutes \in Nat \ {0} /\ DefaultMinutes \in 1 .. MaxMinutes
    /\ MaxMessages \in Nat /\ MaxWipes \in Nat

VARIABLES
    worker,     \* the memory of the service worker: it is unlocked when it has a password
    stored,     \* chrome.storage; minutes = 0: never chosen
    keys,       \* the wrapping keys: how many were made, and the one in IndexedDB (0: none)
    panel,      \* what a panel shows, whether it knows an envelope, its syncPassword
    call,       \* a panel's message and how far the worker is with it
    messages, wipes,
    overlapped, \* history: a message was handled while another was
    mayHold     \* history: a password was handed over since the last manual lock

userVars == <<messages, wipes>>
history  == <<overlapped, mayHold>>
vars == <<worker, stored, keys, panel, call, userVars, history>>

Minutes == 1 .. MaxMinutes

MaybePassword == Passwords \union {NoPassword}

\* wrappedSyncPassword: the password and the wrapping key it is encrypted under.
Saved == [password : Passwords, key : 1 .. MaxWipes + 1]

NoSaved == [password |-> NoPassword, key |-> 0]

Worker == [password : MaybePassword, minutes : Minutes, idle : 0 .. MaxMinutes + 1]

Stored == [envelope : MaybePassword, saved : Saved \union {NoSaved},
           required : BOOLEAN, minutes : {0} \union Minutes]

Panel == [view : {"closed", "loading", "setup", "locked", "open"},
          hasEnvelope : BOOLEAN, password : MaybePassword]

Working == {"reading", "verified", "keyed", "removed", "written", "settings", "unwrapping"}

Call == [step : {"none", "sent", "hung", "answered"} \union Working,
         kind : {"GET_STATE", "UNLOCK", "LOCK"}, password : MaybePassword,
         minutes : Minutes, required : BOOLEAN, ok : BOOLEAN,
         read : Stored, key : 0 .. MaxWipes + 1]

FreshWorker == [password |-> NoPassword, minutes |-> DefaultMinutes, idle |-> 0]

EmptyStorage == [envelope |-> NoPassword, saved |-> NoSaved, required |-> FALSE, minutes |-> 0]

NoCall == [step |-> "none", kind |-> "LOCK", password |-> NoPassword,
           minutes |-> DefaultMinutes, required |-> FALSE, ok |-> FALSE,
           read |-> EmptyStorage, key |-> 0]

TypeOK ==
    /\ worker \in Worker /\ stored \in Stored
    /\ keys \in [made : 0 .. MaxWipes + 1, current : 0 .. MaxWipes + 1]
    /\ panel \in [Panels -> Panel] /\ call \in [Panels -> Call]
    /\ messages \in 0 .. MaxMessages /\ wipes \in 0 .. MaxWipes
    /\ overlapped \in BOOLEAN /\ mayHold \in BOOLEAN

ClosedPanel == [view |-> "closed", hasEnvelope |-> FALSE, password |-> NoPassword]

Init ==
    /\ worker = FreshWorker /\ stored = EmptyStorage
    /\ keys = [made |-> 0, current |-> 0]
    /\ panel = [p \in Panels |-> ClosedPanel]
    /\ call = [p \in Panels |-> NoCall]
    /\ messages = 0 /\ wipes = 0
    /\ overlapped = FALSE /\ mayHold = FALSE

Unlocked == worker.password # NoPassword

Handling(p) == call[p].step \in Working

-----------------------------------------------------------------------------
(***************************************************************************)
(* The panels.                                                             *)
(***************************************************************************)
Send(p, message) ==
    /\ messages < MaxMessages
    /\ call[p].step = "none"
    /\ messages' = messages + 1
    /\ call' = [call EXCEPT ![p] = [message EXCEPT !.step = "sent"]]

Unlock(pw, minutes, required) ==
    [NoCall EXCEPT !.kind = "UNLOCK", !.password = pw, !.minutes = minutes, !.required = required]

Show(p, view) == panel' = [panel EXCEPT ![p].view = view]

\* checkExtensionState.
OpenPanel(p) ==
    /\ panel[p].view = "closed"
    /\ Send(p, [NoCall EXCEPT !.kind = "GET_STATE"])
    /\ panel' = [panel EXCEPT ![p] = [ClosedPanel EXCEPT
            !.view = "loading", !.hasEnvelope = stored.envelope # NoPassword]]
    /\ UNCHANGED <<worker, stored, keys, wipes, history>>

ClosePanel(p) ==
    /\ panel[p].view # "closed"
    /\ panel' = [panel EXCEPT ![p] = ClosedPanel]
    /\ UNCHANGED <<worker, stored, keys, call, userVars, history>>

\* A panel that knows no envelope stores one, whatever is stored by now.
HandleSetupPassword(p, pw, minutes, required) ==
    /\ panel[p].view = "setup"
    /\ Send(p, Unlock(pw, minutes, required))
    /\ stored' = [stored EXCEPT !.envelope = pw]
    /\ panel' = [panel EXCEPT ![p] = [view |-> "locked", hasEnvelope |-> TRUE, password |-> pw]]
    /\ UNCHANGED <<worker, keys, wipes, history>>

\* minutes and required are what the panel's form shows, saved or not.
HandleUnlock(p, pw, minutes, required) ==
    /\ panel[p].view = "locked"
    /\ Send(p, Unlock(pw, minutes, required))
    /\ panel' = [panel EXCEPT ![p].password = pw]
    /\ UNCHANGED <<worker, stored, keys, wipes, history>>

HandleSaveSettings(p, minutes, required) ==
    /\ panel[p].view = "open"
    /\ Send(p, Unlock(panel[p].password, minutes, required))
    /\ UNCHANGED <<worker, stored, keys, panel, wipes, history>>

HandleManualLock(p) ==
    /\ panel[p].view = "open"
    /\ Send(p, [NoCall EXCEPT !.kind = "LOCK"])
    /\ UNCHANGED <<worker, stored, keys, panel, wipes, history>>

\* The keys and the storage are cleared and the panel reloads; the worker is not told.
HandleWipeLocal(p) ==
    /\ panel[p].view \in {"locked", "open"}
    /\ wipes < MaxWipes
    /\ wipes' = wipes + 1
    /\ stored' = EmptyStorage
    /\ keys' = [keys EXCEPT !.current = 0]
    /\ Send(p, [NoCall EXCEPT !.kind = "GET_STATE"])
    /\ panel' = [panel EXCEPT ![p] = [ClosedPanel EXCEPT !.view = "loading"]]
    /\ UNCHANGED <<worker, history>>

\* handleUnlocked: reloadDekFromStoredEnvelope fails unless the password opens what is
\* stored now, and the panel then stays as it is.
HandleUnlocked(p, pw) ==
    panel' = [panel EXCEPT ![p].password = pw,
                           ![p].view = IF stored.envelope = pw THEN "open" ELSE panel[p].view]

\* The callback of sendMessage; nothing is left to call in a closed panel.  A LOCK is
\* taken as done whatever the answer.
TakeAnswer(p) ==
    LET c == call[p] IN
    /\ c.step = "answered"
    /\ call' = [call EXCEPT ![p] = NoCall]
    /\ CASE panel[p].view = "closed" -> UNCHANGED panel
         [] panel[p].view = "loading" /\ c.kind = "GET_STATE" ->
                IF c.ok THEN HandleUnlocked(p, c.password)
                ELSE Show(p, IF panel[p].hasEnvelope THEN "locked" ELSE "setup")
         [] panel[p].view = "locked" /\ c.kind = "UNLOCK" ->
                IF c.ok THEN HandleUnlocked(p, c.password) ELSE UNCHANGED panel
         [] panel[p].view = "open" /\ c.kind = "LOCK" ->
                panel' = [panel EXCEPT ![p].view = "locked", ![p].password = NoPassword]
         [] OTHER -> UNCHANGED panel
    /\ UNCHANGED <<worker, stored, keys, userVars, history>>

-----------------------------------------------------------------------------
(***************************************************************************)
(* The service worker.                                                     *)
(***************************************************************************)
Locked(w) == [w EXCEPT !.password = NoPassword, !.idle = 0]

Opened(w, pw) == [w EXCEPT !.password = pw, !.idle = 0]

\* Mutant: looking counts as activity.
CheckAutoLockTouches(w) ==
    IF w.password # NoPassword /\ w.idle > w.minutes THEN [w EXCEPT !.idle = 0] ELSE w

\* checkAutoLock.
CheckAutoLock(w) ==
    IF w.password # NoPassword /\ w.idle > w.minutes THEN Locked(w) ELSE w

Answer(p, ok, pw) ==
    call' = [call EXCEPT ![p].step = "answered", ![p].ok = ok, ![p].password = pw]

Goto(p, step) == call' = [call EXCEPT ![p].step = step]

Receives(p, kind) ==
    /\ call[p].step = "sent" /\ call[p].kind = kind
    /\ overlapped' = (overlapped \/ \E q \in Panels : Handling(q))

\* tryAutoUnlock, until it waits for chrome.storage.
ReceiveGetState(p) ==
    /\ Receives(p, "GET_STATE")
    /\ worker' = CheckAutoLock(worker)
    /\ IF worker'.password # NoPassword
       THEN Answer(p, TRUE, worker'.password)
       ELSE call' = [call EXCEPT ![p].step = "settings", ![p].read = stored]
    /\ UNCHANGED <<stored, keys, panel, userVars, mayHold>>

\* tryAutoUnlock with the settings it has read.
UseSettings(p) ==
    LET read == call[p].read IN
    /\ call[p].step = "settings"
    /\ worker' = [worker EXCEPT !.minutes = IF read.minutes # 0 THEN read.minutes ELSE @]
    /\ IF read.required \/ read.saved = NoSaved \/ read.envelope = NoPassword
       THEN Answer(p, FALSE, NoPassword)
       ELSE Goto(p, "unwrapping")
    /\ UNCHANGED <<stored, keys, panel, userVars, history>>

\* Unlocks if the saved password can be decrypted and opens the envelope read; else the
\* worker locks and the saved password is removed.  A key made here decrypts nothing, and
\* making it may not end, as in GetWrappingKey.
Unwrap(p) ==
    LET read == call[p].read IN
    /\ call[p].step = "unwrapping"
    /\ IF read.saved.key = keys.current /\ read.saved.password = read.envelope
       THEN /\ worker' = Opened(worker, read.envelope)
            /\ Answer(p, TRUE, read.envelope)
            /\ UNCHANGED <<stored, keys>>
       ELSE \/ /\ worker' = Locked(worker)
               /\ stored' = [stored EXCEPT !.saved = NoSaved]
               /\ keys' = IF keys.current # 0 THEN keys
                          ELSE [made |-> keys.made + 1, current |-> keys.made + 1]
               /\ Answer(p, FALSE, NoPassword)
            \/ /\ keys.current = 0
               /\ Goto(p, "hung")
               /\ UNCHANGED <<worker, stored, keys>>
    /\ UNCHANGED <<panel, userVars, history>>

\* UNLOCK, until it waits for chrome.storage: the auto-lock time is set before the
\* password is known to be right.
ReceiveUnlock(p) ==
    /\ Receives(p, "UNLOCK")
    /\ worker' = [CheckAutoLock(worker) EXCEPT !.minutes = call[p].minutes]
    /\ call' = [call EXCEPT ![p].step = "reading", ![p].read = stored]
    /\ mayHold' = TRUE
    /\ UNCHANGED <<stored, keys, panel, userVars>>

\* Mutant: the password is believed while the vault is open.
VerifyUnlessOpen(p) ==
    LET c == call[p] IN
    /\ c.step = "reading"
    /\ CASE c.read.envelope = NoPassword ->
                Answer(p, FALSE, NoPassword) /\ UNCHANGED worker
         [] c.read.envelope # NoPassword /\ c.password # c.read.envelope /\ ~Unlocked ->
                Answer(p, FALSE, NoPassword) /\ worker' = Locked(worker)
         [] OTHER -> Goto(p, "verified") /\ UNCHANGED worker
    /\ UNCHANGED <<stored, keys, panel, userVars, history>>

\* UNLOCK: the key is derived and the envelope opened.
Verify(p) ==
    LET c == call[p] IN
    /\ c.step = "reading"
    /\ CASE c.read.envelope = NoPassword ->
                Answer(p, FALSE, NoPassword) /\ UNCHANGED worker
         [] c.read.envelope # NoPassword /\ c.password # c.read.envelope ->
                Answer(p, FALSE, NoPassword) /\ worker' = Locked(worker)
         [] OTHER -> Goto(p, "verified") /\ UNCHANGED worker
    /\ UNCHANGED <<stored, keys, panel, userVars, history>>

\* Mutant: a key is made for every password that is saved.
GetWrappingKeyAlwaysNew(p) ==
    /\ call[p].step = "verified" /\ ~call[p].required
    /\ keys' = [made |-> keys.made + 1, current |-> keys.made + 1]
    /\ call' = [call EXCEPT ![p].step = "keyed", ![p].key = keys.made + 1]
    /\ UNCHANGED <<worker, stored, panel, userVars, history>>

\* getOrCreateWrappingKey for a password that is to be saved.  A new key is generated
\* while the IndexedDB transaction is open; when the transaction ends first, the key is
\* not stored and the promise is never settled.
GetWrappingKey(p) ==
    /\ call[p].step = "verified" /\ ~call[p].required
    /\ \/ /\ keys.current # 0
          /\ call' = [call EXCEPT ![p].step = "keyed", ![p].key = keys.current]
          /\ UNCHANGED keys
       \/ /\ keys.current = 0
          /\ keys' = [made |-> keys.made + 1, current |-> keys.made + 1]
          /\ call' = [call EXCEPT ![p].step = "keyed", ![p].key = keys.made + 1]
       \/ /\ keys.current = 0
          /\ Goto(p, "hung")
          /\ UNCHANGED keys
    /\ UNCHANGED <<worker, stored, panel, userVars, history>>

\* localStore.set of the settings and the wrapped password.
WriteWrapped(p) ==
    /\ call[p].step = "keyed"
    /\ stored' = [stored EXCEPT !.required = FALSE, !.minutes = worker.minutes,
                                !.saved = [password |-> call[p].password, key |-> call[p].key]]
    /\ Goto(p, "written")
    /\ UNCHANGED <<worker, keys, panel, userVars, history>>

\* Mutant: the choice is written first, the saved password removed after it.
RemoveWrappedLast(p) ==
    /\ call[p].step = "verified" /\ call[p].required
    /\ stored' = [stored EXCEPT !.required = TRUE]
    /\ Goto(p, "removed")
    /\ UNCHANGED <<worker, keys, panel, userVars, history>>

RemoveWrapped(p) ==
    /\ call[p].step = "verified" /\ call[p].required
    /\ stored' = [stored EXCEPT !.saved = NoSaved]
    /\ Goto(p, "removed")
    /\ UNCHANGED <<worker, keys, panel, userVars, history>>

\* Mutant: the auto-lock time is not written with the rest.
WriteRequiredOnly(p) ==
    /\ call[p].step = "removed"
    /\ stored' = [stored EXCEPT !.required = TRUE]
    /\ Goto(p, "written")
    /\ UNCHANGED <<worker, keys, panel, userVars, history>>

WriteRequired(p) ==
    /\ call[p].step = "removed"
    /\ stored' = [stored EXCEPT !.required = TRUE, !.minutes = worker.minutes]
    /\ Goto(p, "written")
    /\ UNCHANGED <<worker, keys, panel, userVars, history>>

FinishUnlock(p) ==
    /\ call[p].step = "written"
    /\ worker' = Opened(worker, call[p].password)
    /\ Answer(p, TRUE, call[p].password)
    /\ UNCHANGED <<stored, keys, panel, userVars, history>>

\* Mutant: the password saved on the device is left there.
ReceiveLockKeepsSaved(p) ==
    /\ Receives(p, "LOCK")
    /\ worker' = Locked(worker)
    /\ mayHold' = FALSE
    /\ Answer(p, TRUE, NoPassword)
    /\ UNCHANGED <<stored, keys, panel, userVars>>

\* Panels always ask for the saved password to be removed (clearSaved).
ReceiveLock(p) ==
    /\ Receives(p, "LOCK")
    /\ worker' = Locked(worker)
    /\ stored' = [stored EXCEPT !.saved = NoSaved]
    /\ mayHold' = FALSE
    /\ Answer(p, TRUE, NoPassword)
    /\ UNCHANGED <<keys, panel, userVars>>

\* A click or a key in a panel: PING, which nobody waits for.
Ping(p) ==
    /\ panel[p].view # "closed"
    /\ messages < MaxMessages
    /\ messages' = messages + 1
    /\ worker' = [CheckAutoLock(worker) EXCEPT !.idle = 0]
    /\ UNCHANGED <<stored, keys, panel, call, wipes, history>>

\* The alarm goes off every minute; only when it locks does it change anything.
AlarmLocks ==
    /\ worker' = CheckAutoLock(worker)
    /\ worker' # worker
    /\ UNCHANGED <<stored, keys, panel, call, userVars, history>>

\* A minute passes.
Tick ==
    /\ Unlocked /\ worker.idle <= MaxMinutes
    /\ worker' = [worker EXCEPT !.idle = @ + 1]
    /\ UNCHANGED <<stored, keys, panel, call, userVars, history>>

\* The browser stops the worker: its handlers are gone, and who waits for one of them
\* has undefined for an answer.
WorkerStops ==
    /\ worker' = FreshWorker
    /\ call' = [p \in Panels |->
                    IF Handling(p) \/ call[p].step = "hung"
                    THEN [call[p] EXCEPT !.step = "answered", !.ok = FALSE] ELSE call[p]]
    /\ UNCHANGED <<stored, keys, panel, userVars, history>>

UserDoes(p) ==
    \/ OpenPanel(p) \/ ClosePanel(p)
    \/ HandleManualLock(p) \/ HandleWipeLocal(p) \/ Ping(p)
    \/ \E minutes \in Minutes, required \in BOOLEAN :
        \/ HandleSaveSettings(p, minutes, required)
        \/ \E pw \in Passwords :
            \/ HandleSetupPassword(p, pw, minutes, required)
            \/ HandleUnlock(p, pw, minutes, required)

Handles(p) ==
    \/ ReceiveGetState(p) \/ UseSettings(p) \/ Unwrap(p)
    \/ ReceiveUnlock(p) \/ Verify(p) \/ GetWrappingKey(p) \/ WriteWrapped(p)
    \/ RemoveWrapped(p) \/ WriteRequired(p) \/ FinishUnlock(p)
    \/ ReceiveLock(p)

Next ==
    \/ \E p \in Panels : UserDoes(p) \/ Handles(p) \/ TakeAnswer(p)
    \/ AlarmLocks \/ Tick \/ WorkerStops

Spec == Init /\ [][Next]_vars

\* Handlers run on, answers arrive, time passes and the alarm goes off.  Users do what
\* they like, and nothing is assumed about the browser stopping the worker.
FairSpec ==
    /\ Spec
    /\ \A p \in Panels : WF_vars(Handles(p)) /\ WF_vars(TakeAnswer(p))
    /\ WF_vars(Tick) /\ WF_vars(AlarmLocks)

-----------------------------------------------------------------------------
(***************************************************************************)
(* Properties.                                                             *)
(***************************************************************************)
Unlocking(p) == call[p].kind = "UNLOCK" /\ call[p].step \in Working \union {"sent", "hung"}

\* Who asked to be asked for the password each session has none saved on the device,
\* wherever the handler that saved that choice was cut off.
OptOutIsKept ==
    stored.required /\ (\A p \in Panels : ~Unlocking(p)) /\ ~overlapped =>
        stored.saved = NoSaved

\* After a manual lock no password is left, in memory or on the device, until somebody
\* types one again: no restart, no panel that asks for the state and no earlier failure
\* brings it back.
ManualLockForgets ==
    ~mayHold /\ ~overlapped => ~Unlocked /\ stored.saved = NoSaved

\* The auto-lock time an open vault has is the one stored, so that a restart of the
\* worker does not change it; a time sent along with a wrong password is never in force.
MinutesInForce ==
    Unlocked /\ stored.envelope # NoPassword /\ (\A p \in Panels : ~Unlocking(p)) /\ ~overlapped =>
        worker.minutes = stored.minutes

\* The password an open vault has opens the envelope stored now, also while panels that
\* know nothing of each other set up, reset and unlock.
PasswordOpensVault ==
    Unlocked /\ stored.envelope # NoPassword /\ (\A p \in Panels : ~Unlocking(p)) /\ ~overlapped =>
        worker.password = stored.envelope

\* Left alone, the worker locks and stays locked, whatever was under way.
LeftAloneItLocks == <>[]~Unlocked

TimedOut == Unlocked /\ worker.idle > worker.minutes

\* docs/security.md:140: the auto-lock timer clears what was decrypted from the memory of
\* the extension: when the time is up, a panel does not stay open unless the vault is
\* used again.
PanelsLockToo ==
    \A p \in Panels : TimedOut ~> (panel[p].view # "open" \/ (Unlocked /\ ~TimedOut))
=============================================================================
