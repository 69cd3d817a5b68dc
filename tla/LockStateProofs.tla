-------------------------- MODULE LockStateProofs --------------------------
(***************************************************************************)
(* Proofs about the lock state: type correctness, that opting out of the   *)
(* saved password is kept, that a manual lock forgets, and that an open    *)
(* vault has the password and the auto-lock time that are stored.          *)
(***************************************************************************)
EXTENDS LockState, TLAPS

USE LockAssumption DEF LockAssumption

-----------------------------------------------------------------------------
(***************************************************************************)
(* The inductive invariant.  The properties compare what the worker and    *)
(* chrome.storage have between messages; a handler that stops at an await  *)
(* knows only what it read before.  If it is alone, that is still so when  *)
(* it goes on, with one exception: a reset does not tell the worker.  Then *)
(* the storage has no envelope, or the UNLOCK that will bring the new      *)
(* password is already on its way (Outdated), and the handler's knowledge  *)
(* is not needed.                                                          *)
(***************************************************************************)
UnlockSteps == {"reading", "verified", "keyed", "removed", "written"}

\* A password is saved together with an auto-lock time.
SettingsOK(s) == s.saved # NoSaved => s.minutes # 0

\* A wrapping key is made when there is none: once before each reset and once after.
KeysOK ==
    /\ keys.made <= wipes + (IF keys.current # 0 THEN 1 ELSE 0)
    /\ keys.current <= keys.made

\* What a handler has found out by the time it has come to a step.
CallOK(p) ==
    LET c == call[p] IN
    /\ c.step \in UnlockSteps => c.kind = "UNLOCK"
    /\ c.step \in {"settings", "unwrapping"} => c.kind = "GET_STATE"
    /\ c.step \in UnlockSteps \ {"reading"} =>
           c.password = c.read.envelope /\ c.password # NoPassword
    /\ c.step = "keyed" => c.key # 0
    /\ c.step = "unwrapping" => c.read.saved # NoSaved /\ c.read.envelope # NoPassword
    /\ SettingsOK(c.read)

UnlockSent == \E p \in Panels : call[p].kind = "UNLOCK" /\ call[p].step = "sent"

\* The vault was reset and, unless a password was set up since and is on its way to the
\* worker, there is none.
Outdated == stored.envelope = NoPassword \/ UnlockSent

\* What a handler relies on that is alone: what it read is what is stored, and what it has
\* done is still so.
AloneOK(p) ==
    LET c == call[p] IN
    /\ c.kind = "GET_STATE" => ~Unlocked
    /\ c.step = "removed" => stored.saved = NoSaved
    /\ Outdated \/ c.read.envelope = stored.envelope
    /\ c.step = "settings" => Outdated \/ c.read.minutes = stored.minutes
    /\ c.step \in {"written", "unwrapping"} => Outdated \/ worker.minutes = stored.minutes
    /\ ~mayHold => c.step = "settings" /\ c.read.saved = NoSaved

OneHandler == \A p, q \in Panels : Handling(p) /\ Handling(q) => p = q

NobodyUnlocks == \A p \in Panels : ~Unlocking(p)

\* What the memory of the worker and the storage are to each other, as long as no two
\* messages were handled at a time.
ApartOK ==
    /\ stored.required => stored.saved = NoSaved
    /\ ~mayHold => ~Unlocked /\ stored.saved = NoSaved
    /\ Unlocked /\ stored.envelope # NoPassword /\ NobodyUnlocks =>
           worker.minutes = stored.minutes /\ worker.password = stored.envelope

Inv ==
    /\ TypeOK /\ KeysOK /\ SettingsOK(stored)
    /\ \A p \in Panels : CallOK(p)
    /\ ~overlapped => ApartOK /\ OneHandler /\ \A p \in Panels : Handling(p) => AloneOK(p)

-----------------------------------------------------------------------------
(***************************************************************************)
(* Lemmas about the operators, and about the steps of one handler.         *)
(***************************************************************************)
\* The empty values are well formed.
LEMMA EmptyTypes ==
    /\ FreshWorker \in Worker /\ FreshWorker.password = NoPassword
    /\ EmptyStorage \in Stored /\ EmptyStorage.saved = NoSaved /\ ~EmptyStorage.required
    /\ EmptyStorage.envelope = NoPassword
    /\ NoCall \in Call /\ NoCall.step = "none" /\ NoCall.read = EmptyStorage
    /\ ClosedPanel \in Panel
    /\ NoSaved \notin Saved
<1>1. EmptyStorage \in Stored /\ EmptyStorage.saved = NoSaved /\ ~EmptyStorage.required
      /\ EmptyStorage.envelope = NoPassword
  BY DEF EmptyStorage, Stored, MaybePassword, Minutes
<1>2. NoCall \in Call /\ NoCall.step = "none" /\ NoCall.read = EmptyStorage
  BY <1>1 DEF NoCall, Call, MaybePassword, Minutes, Working
<1> QED BY <1>1, <1>2 DEF FreshWorker, Worker, ClosedPanel, Panel, MaybePassword, Minutes,
              NoSaved, Saved

\* Locking takes the password away and nothing else that counts.
LEMMA LockedOK ==
    ASSUME NEW w \in Worker
    PROVE  Locked(w) \in Worker /\ Locked(w).password = NoPassword /\ Locked(w).minutes = w.minutes
<1> DEFINE new == [w EXCEPT !.password = NoPassword, !.idle = 0]
<1>1. new.password = NoPassword /\ new.minutes = w.minutes
  BY DEF Worker
<1>2. 0 \in 0 .. MaxMinutes + 1
  OBVIOUS
<1>3. new \in Worker
  BY <1>2 DEF Worker, MaybePassword
<1> QED BY <1>1, <1>3 DEF Locked

\* Unlocking puts the password in.
LEMMA OpenedOK ==
    ASSUME NEW w \in Worker, NEW pw \in MaybePassword
    PROVE  Opened(w, pw) \in Worker /\ Opened(w, pw).password = pw /\ Opened(w, pw).minutes = w.minutes
<1> DEFINE new == [w EXCEPT !.password = pw, !.idle = 0]
<1>1. new.password = pw /\ new.minutes = w.minutes
  BY DEF Worker
<1>2. 0 \in 0 .. MaxMinutes + 1
  OBVIOUS
<1>3. new \in Worker
  BY <1>2 DEF Worker
<1> QED BY <1>1, <1>3 DEF Opened

\* The auto-lock timer locks or leaves the worker as it is.
LEMMA CheckAutoLockOK ==
    ASSUME NEW w \in Worker
    PROVE  /\ CheckAutoLock(w) \in Worker /\ CheckAutoLock(w).minutes = w.minutes
           /\ CheckAutoLock(w).password \in {w.password, NoPassword}
BY LockedOK DEF CheckAutoLock

\* Nobody but p has got further.
OthersWait(p) == \A q \in Panels \ {p} : call'[q] = call[q]

\* The handler of p has come to a step, and knows what it knew.
MovedTo(p, step) ==
    /\ call' \in [Panels -> Call] /\ OthersWait(p)
    /\ call'[p].step = step /\ call'[p].kind = call[p].kind /\ call'[p].read = call[p].read
    /\ call'[p].key = call[p].key

\* Going to a step changes the step.
LEMMA GotoOK ==
    ASSUME TypeOK, NEW p \in Panels, NEW s \in Working \union {"hung"}, Goto(p, s)
    PROVE  MovedTo(p, s) /\ call'[p].password = call[p].password
<1> DEFINE new == [call[p] EXCEPT !.step = s]
<1>1. call' = [call EXCEPT ![p] = new]
  BY DEF Goto
<1>2. call[p] \in Call
  BY DEF TypeOK
<1>3. new \in Call /\ new.step = s /\ new.kind = call[p].kind /\ new.read = call[p].read
      /\ new.key = call[p].key /\ new.password = call[p].password
  BY <1>2 DEF Call
<1> HIDE DEF new
<1> QED BY <1>1, <1>3 DEF TypeOK, MovedTo, OthersWait

\* Answering ends the handler.
LEMMA AnswerOK ==
    ASSUME TypeOK, NEW p \in Panels, NEW ok \in BOOLEAN, NEW pw \in MaybePassword, Answer(p, ok, pw)
    PROVE  MovedTo(p, "answered")
<1> DEFINE new == [call[p] EXCEPT !.step = "answered", !.ok = ok, !.password = pw]
<1>1. call' = [call EXCEPT ![p] = new]
  BY DEF Answer
<1>2. call[p] \in Call
  BY DEF TypeOK
<1>3. new \in Call /\ new.step = "answered" /\ new.kind = call[p].kind /\ new.read = call[p].read
      /\ new.key = call[p].key
  BY <1>2 DEF Call
<1> HIDE DEF new
<1> QED BY <1>1, <1>3 DEF TypeOK, MovedTo, OthersWait

\* Sending a message to the worker.
LEMMA SendOK ==
    ASSUME TypeOK, NEW p \in Panels, NEW message \in Call, Send(p, message)
    PROVE  /\ call[p].step = "none" /\ messages' \in 0 .. MaxMessages
           /\ call' \in [Panels -> Call] /\ OthersWait(p)
           /\ call'[p].step = "sent" /\ call'[p].kind = message.kind /\ call'[p].read = message.read
<1> DEFINE new == [message EXCEPT !.step = "sent"]
<1>1. call' = [call EXCEPT ![p] = new] /\ call[p].step = "none" /\ messages' \in 0 .. MaxMessages
  BY DEF Send, TypeOK
<1>2. new \in Call /\ new.step = "sent" /\ new.kind = message.kind /\ new.read = message.read
  BY DEF Call
<1> HIDE DEF new
<1> QED BY <1>1, <1>2 DEF TypeOK, OthersWait

\* UNLOCK is a message with nothing read.
LEMMA UnlockMessage ==
    ASSUME NEW pw \in MaybePassword, NEW minutes \in Minutes, NEW required \in BOOLEAN
    PROVE  /\ Unlock(pw, minutes, required) \in Call
           /\ Unlock(pw, minutes, required).kind = "UNLOCK"
           /\ Unlock(pw, minutes, required).read = EmptyStorage
BY EmptyTypes DEF Unlock, NoCall, Call, Working

\* A step of one handler, when no other is at work or messages have overlapped.
LEMMA HandlerStep ==
    ASSUME Inv, NEW p \in Panels, TypeOK', KeysOK', SettingsOK(stored)', CallOK(p)', OthersWait(p),
           ~overlapped' => /\ ~overlapped
                           /\ \A q \in Panels \ {p} : ~Handling(q)
                           /\ ApartOK'
                           /\ Handling(p)' => AloneOK(p)'
    PROVE  Inv'
<1>1. ASSUME NEW q \in Panels \ {p} PROVE CallOK(q)' /\ (Handling(q)' => Handling(q))
  BY DEF Inv, CallOK, OthersWait, Handling
<1>2. (\A q \in Panels : CallOK(q))'
  BY <1>1
<1>3. ASSUME ~overlapped' PROVE ApartOK' /\ OneHandler' /\ (\A q \in Panels : Handling(q) => AloneOK(q))'
  <2>1. \A q \in Panels \ {p} : ~Handling(q)'
    BY <1>1, <1>3
  <2>2. ApartOK' /\ (Handling(p)' => AloneOK(p)')
    BY <1>3
  <2>3. OneHandler'
    BY <2>1 DEF OneHandler
  <2> QED BY <2>1, <2>2, <2>3
<1> QED BY <1>2, <1>3 DEF Inv

\* UNLOCK messages of the others are still on their way.
LEMMA SentKept ==
    ASSUME NEW p \in Panels, OthersWait(p), call[p].step # "sent" \/ call[p].kind # "UNLOCK"
    PROVE  UnlockSent => UnlockSent'
BY DEF UnlockSent, OthersWait

\* Whose UNLOCK is under way is known to unlock.
LEMMA UnlockingIsSeen ==
    ASSUME NEW p \in Panels, Unlocking(p)'
    PROVE  ~NobodyUnlocks'
BY DEF NobodyUnlocks

\* A message on its way is one that will be handled.
LEMMA SentIsSeen == UnlockSent' => ~NobodyUnlocks'
BY DEF UnlockSent, NobodyUnlocks, Unlocking

-----------------------------------------------------------------------------
(***************************************************************************)
(* What the panels do.                                                     *)
(***************************************************************************)
\* A step in which no message is handled.  What is stored stays, is wiped, or gets an
\* envelope whose password is on its way to the worker.
LEMMA PanelStep ==
    ASSUME Inv, TypeOK', KeysOK', SettingsOK(stored)', \A p \in Panels : CallOK(p)',
           UNCHANGED history,
           worker'.minutes = worker.minutes, worker'.password \in {worker.password, NoPassword},
           \A p \in Panels : Handling(p)' => call'[p] = call[p],
           \A p \in Panels : Unlocking(p) => Unlocking(p)',
           UnlockSent => UnlockSent',
           \/ stored' = stored
           \/ stored' = EmptyStorage
           \/ UnlockSent' /\ stored'.saved = stored.saved /\ stored'.required = stored.required
    PROVE  Inv'
<1>1. ASSUME ~overlapped' PROVE ApartOK' /\ OneHandler' /\ (\A q \in Panels : Handling(q) => AloneOK(q))'
  <2>1. ApartOK /\ OneHandler /\ \A q \in Panels : Handling(q) => AloneOK(q)
    BY <1>1 DEF Inv, history
  <2>2. NobodyUnlocks' => NobodyUnlocks
    BY DEF NobodyUnlocks
  <2>3. Unlocked' => Unlocked /\ worker'.password = worker.password
    BY DEF Unlocked
  <2>4. ApartOK'
    <3>1. CASE stored' = stored
      BY <2>1, <2>2, <2>3, <3>1 DEF ApartOK, history
    <3>2. CASE stored' = EmptyStorage
      BY <2>1, <2>3, <3>2, EmptyTypes DEF ApartOK, history
    <3>3. CASE UnlockSent' /\ stored'.saved = stored.saved /\ stored'.required = stored.required
      BY <2>1, <2>3, <3>3, SentIsSeen DEF ApartOK, history
    <3> QED BY <3>1, <3>2, <3>3
  <2>5. ASSUME NEW q \in Panels, Handling(q)' PROVE Handling(q) /\ AloneOK(q)'
    <3>1. call'[q] = call[q] /\ Handling(q) /\ AloneOK(q)
      BY <2>1, <2>5 DEF Handling
    <3>2. stored'.saved = stored.saved \/ stored'.saved = NoSaved
      BY EmptyTypes
    <3>3. Outdated' \/ (stored' = stored /\ ~Outdated)
      BY EmptyTypes DEF Outdated
    <3> QED BY <2>3, <3>1, <3>2, <3>3 DEF AloneOK, history
  <2>6. OneHandler'
    BY <2>1, <2>5 DEF OneHandler
  <2> QED BY <2>4, <2>5, <2>6
<1> QED BY <1>1 DEF Inv

\* Sending a message disturbs no handler.
LEMMA SendKeeps ==
    ASSUME Inv, NEW p \in Panels, NEW message \in Call, Send(p, message),
           message.read = EmptyStorage
    PROVE  /\ call' \in [Panels -> Call] /\ messages' \in 0 .. MaxMessages
           /\ \A q \in Panels : CallOK(q)'
           /\ \A q \in Panels : Handling(q)' => call'[q] = call[q]
           /\ \A q \in Panels : Unlocking(q) => Unlocking(q)'
           /\ UnlockSent => UnlockSent'
           /\ message.kind = "UNLOCK" => UnlockSent'
<1>1. /\ call[p].step = "none" /\ messages' \in 0 .. MaxMessages
      /\ call' \in [Panels -> Call] /\ OthersWait(p)
      /\ call'[p].step = "sent" /\ call'[p].kind = message.kind /\ call'[p].read = EmptyStorage
  BY SendOK DEF Inv
<1>2. CallOK(p)'
  BY <1>1, EmptyTypes DEF CallOK, UnlockSteps, SettingsOK
<1>3. ASSUME NEW q \in Panels \ {p} PROVE CallOK(q)' /\ call'[q] = call[q]
  BY <1>1 DEF OthersWait, Inv, CallOK
<1>4. ~Handling(p)' /\ ~Unlocking(p)
  BY <1>1 DEF Handling, Working, Unlocking
<1>5. ASSUME NEW q \in Panels, Unlocking(q) PROVE Unlocking(q)'
  BY <1>3, <1>4, <1>5 DEF Unlocking
<1>6. UnlockSent => UnlockSent'
  BY <1>1, SentKept
<1>7. message.kind = "UNLOCK" => UnlockSent'
  BY <1>1 DEF UnlockSent
<1> QED BY <1>1, <1>2, <1>3, <1>4, <1>5, <1>6, <1>7

LEMMA OpenPanelKeeps == ASSUME Inv, NEW p \in Panels, OpenPanel(p) PROVE Inv'
<1> DEFINE message == [NoCall EXCEPT !.kind = "GET_STATE"]
<1>1. message \in Call /\ message.read = EmptyStorage
  BY EmptyTypes DEF Call
<1>2. Send(p, message)
  BY DEF OpenPanel
<1> HIDE DEF message
<1> DEFINE new == [ClosedPanel EXCEPT !.view = "loading", !.hasEnvelope = stored.envelope # NoPassword]
<1>3. panel' = [panel EXCEPT ![p] = new] /\ new \in Panel
  BY EmptyTypes DEF OpenPanel, Panel
<1> HIDE DEF new
<1>4. TypeOK'
  BY <1>1, <1>2, <1>3, SendKeeps DEF Inv, TypeOK, OpenPanel, history
<1> QED BY <1>1, <1>2, <1>4, SendKeeps, PanelStep DEF Inv, OpenPanel, history, KeysOK, SettingsOK

LEMMA ClosePanelKeeps == ASSUME Inv, NEW p \in Panels, ClosePanel(p) PROVE Inv'
<1>1. TypeOK'
  BY EmptyTypes DEF Inv, TypeOK, ClosePanel, history, userVars
<1> QED BY <1>1, PanelStep
        DEF Inv, ClosePanel, history, userVars, KeysOK, SettingsOK, CallOK, Unlocking, UnlockSent

LEMMA HandleSetupPasswordKeeps ==
    ASSUME Inv, NEW p \in Panels, NEW pw \in Passwords, NEW minutes \in Minutes,
           NEW required \in BOOLEAN, HandleSetupPassword(p, pw, minutes, required)
    PROVE  Inv'
<1> DEFINE message == Unlock(pw, minutes, required)
<1>0. pw \in MaybePassword
  BY DEF MaybePassword
<1>1. message \in Call /\ message.read = EmptyStorage /\ message.kind = "UNLOCK"
  BY <1>0, UnlockMessage
<1>2. Send(p, message)
  BY DEF HandleSetupPassword
<1> HIDE DEF message
<1> DEFINE new == [view |-> "locked", hasEnvelope |-> TRUE, password |-> pw]
<1>3. panel' = [panel EXCEPT ![p] = new] /\ new \in Panel
  BY <1>0 DEF HandleSetupPassword, Panel
<1> HIDE DEF new
<1>4. stored \in Stored /\ stored' = [stored EXCEPT !.envelope = pw]
  BY DEF Inv, TypeOK, HandleSetupPassword
<1>5. /\ stored' \in Stored /\ stored'.saved = stored.saved /\ stored'.required = stored.required
      /\ stored'.minutes = stored.minutes
  BY <1>0, <1>4 DEF Stored
<1>6. TypeOK'
  BY <1>1, <1>2, <1>3, <1>5, SendKeeps DEF Inv, TypeOK, HandleSetupPassword, history
<1>7. SettingsOK(stored)'
  BY <1>5 DEF Inv, SettingsOK
<1> QED BY <1>1, <1>2, <1>5, <1>6, <1>7, SendKeeps, PanelStep
        DEF Inv, HandleSetupPassword, history, KeysOK

LEMMA HandleUnlockKeeps ==
    ASSUME Inv, NEW p \in Panels, NEW pw \in Passwords, NEW minutes \in Minutes,
           NEW required \in BOOLEAN, HandleUnlock(p, pw, minutes, required)
    PROVE  Inv'
<1> DEFINE message == Unlock(pw, minutes, required)
<1>0. pw \in MaybePassword
  BY DEF MaybePassword
<1>1. message \in Call /\ message.read = EmptyStorage
  BY <1>0, UnlockMessage
<1>2. Send(p, message)
  BY DEF HandleUnlock
<1> HIDE DEF message
<1> DEFINE new == [panel[p] EXCEPT !.password = pw]
<1>3. panel[p] \in Panel
  BY DEF Inv, TypeOK
<1>4. panel' = [panel EXCEPT ![p] = new] /\ new \in Panel
  BY <1>0, <1>3 DEF HandleUnlock, Panel
<1> HIDE DEF new
<1>5. TypeOK'
  BY <1>1, <1>2, <1>4, SendKeeps DEF Inv, TypeOK, HandleUnlock, history
<1> QED BY <1>1, <1>2, <1>5, SendKeeps, PanelStep DEF Inv, HandleUnlock, history, KeysOK, SettingsOK

LEMMA HandleSaveSettingsKeeps ==
    ASSUME Inv, NEW p \in Panels, NEW minutes \in Minutes, NEW required \in BOOLEAN,
           HandleSaveSettings(p, minutes, required)
    PROVE  Inv'
<1> DEFINE message == Unlock(panel[p].password, minutes, required)
<1>0. panel[p].password \in MaybePassword
  BY DEF Inv, TypeOK, Panel
<1>1. message \in Call /\ message.read = EmptyStorage
  BY <1>0, UnlockMessage
<1>2. Send(p, message)
  BY DEF HandleSaveSettings
<1> HIDE DEF message
<1>3. TypeOK'
  BY <1>1, <1>2, SendKeeps DEF Inv, TypeOK, HandleSaveSettings, history
<1> QED BY <1>1, <1>2, <1>3, SendKeeps, PanelStep
        DEF Inv, HandleSaveSettings, history, KeysOK, SettingsOK

LEMMA HandleManualLockKeeps == ASSUME Inv, NEW p \in Panels, HandleManualLock(p) PROVE Inv'
<1> DEFINE message == [NoCall EXCEPT !.kind = "LOCK"]
<1>1. message \in Call /\ message.read = EmptyStorage
  BY EmptyTypes DEF Call
<1>2. Send(p, message)
  BY DEF HandleManualLock
<1> HIDE DEF message
<1>3. TypeOK'
  BY <1>1, <1>2, SendKeeps DEF Inv, TypeOK, HandleManualLock, history
<1> QED BY <1>1, <1>2, <1>3, SendKeeps, PanelStep
        DEF Inv, HandleManualLock, history, KeysOK, SettingsOK

LEMMA HandleWipeLocalKeeps == ASSUME Inv, NEW p \in Panels, HandleWipeLocal(p) PROVE Inv'
<1> DEFINE message == [NoCall EXCEPT !.kind = "GET_STATE"]
<1>1. message \in Call /\ message.read = EmptyStorage
  BY EmptyTypes DEF Call
<1>2. Send(p, message)
  BY DEF HandleWipeLocal
<1> HIDE DEF message
<1> DEFINE new == [ClosedPanel EXCEPT !.view = "loading"]
<1>3. panel' = [panel EXCEPT ![p] = new] /\ new \in Panel
  BY EmptyTypes DEF HandleWipeLocal, Panel
<1> HIDE DEF new
<1>4. wipes' = wipes + 1 /\ wipes' \in 0 .. MaxWipes
  BY DEF HandleWipeLocal, Inv, TypeOK
<1>5. /\ keys' \in [made : 0 .. MaxWipes + 1, current : 0 .. MaxWipes + 1]
      /\ keys'.made = keys.made /\ keys'.current = 0
  <2>1. /\ keys \in [made : 0 .. MaxWipes + 1, current : 0 .. MaxWipes + 1]
        /\ keys' = [keys EXCEPT !.current = 0] /\ 0 \in 0 .. MaxWipes + 1
    BY DEF HandleWipeLocal, Inv, TypeOK
  <2> QED BY <2>1
<1>6. KeysOK'
  <2>1. /\ keys.made \in Nat /\ wipes \in Nat
        /\ keys.made <= wipes + (IF keys.current # 0 THEN 1 ELSE 0)
    BY DEF Inv, TypeOK, KeysOK
  <2> QED BY <1>4, <1>5, <2>1 DEF KeysOK
<1>7. TypeOK' /\ stored' = EmptyStorage
  BY <1>1, <1>2, <1>3, <1>4, <1>5, SendKeeps, EmptyTypes DEF Inv, TypeOK, HandleWipeLocal, history
<1>8. SettingsOK(stored)'
  BY <1>7, EmptyTypes DEF SettingsOK
<1> QED BY <1>1, <1>2, <1>6, <1>7, <1>8, SendKeeps, PanelStep DEF HandleWipeLocal, history

\* The answer changes what the panel shows, and the panel can send again.
LEMMA TakeAnswerKeeps == ASSUME Inv, NEW p \in Panels, TakeAnswer(p) PROVE Inv'
<1>1. call[p].step = "answered" /\ call' = [call EXCEPT ![p] = NoCall]
  BY DEF TakeAnswer
<1>2. call' \in [Panels -> Call] /\ call'[p] = NoCall /\ \A q \in Panels \ {p} : call'[q] = call[q]
  BY <1>1, EmptyTypes DEF Inv, TypeOK
<1>3. panel[p] \in Panel /\ call[p].password \in MaybePassword
  BY DEF Inv, TypeOK, Call
<1>4. panel' \in [Panels -> Panel]
  <2>1. ASSUME NEW view \in {"locked", "setup", "open"}
        PROVE  [panel[p] EXCEPT !.view = view] \in Panel
    BY <1>3 DEF Panel
  <2>2. ASSUME NEW view \in {"closed", "loading", "setup", "locked", "open"}, NEW pw \in MaybePassword
        PROVE  [panel[p] EXCEPT !.password = pw, !.view = view] \in Panel
               /\ [panel[p] EXCEPT !.view = view, !.password = pw] \in Panel
    BY <1>3 DEF Panel
  <2>3. panel[p].view \in {"closed", "loading", "setup", "locked", "open"} /\ NoPassword \in MaybePassword
    BY <1>3 DEF Panel, MaybePassword
  <2>4. CASE panel' = panel
    BY <2>4 DEF Inv, TypeOK
  <2>5. ASSUME NEW view \in {"locked", "setup"}, Show(p, view) PROVE panel' \in [Panels -> Panel]
    BY <2>1, <2>5 DEF Inv, TypeOK, Show
  <2>6. CASE HandleUnlocked(p, call[p].password)
    <3> DEFINE view == IF stored.envelope = call[p].password THEN "open" ELSE panel[p].view
               new == [panel[p] EXCEPT !.password = call[p].password, !.view = view]
    <3>1. view \in {"closed", "loading", "setup", "locked", "open"}
      BY <2>3
    <3>2. new \in Panel
      BY <3>1, <2>2, <1>3
    <3>3. panel' = [panel EXCEPT ![p] = new]
      BY <2>6 DEF HandleUnlocked
    <3> HIDE DEF new
    <3> QED BY <3>2, <3>3 DEF Inv, TypeOK
  <2>7. CASE panel' = [panel EXCEPT ![p].view = "locked", ![p].password = NoPassword]
    <3> DEFINE new == [panel[p] EXCEPT !.view = "locked", !.password = NoPassword]
    <3>1. new \in Panel
      BY <2>2, <2>3
    <3>2. panel' = [panel EXCEPT ![p] = new]
      BY <2>7
    <3> HIDE DEF new
    <3> QED BY <3>1, <3>2 DEF Inv, TypeOK
  <2> QED BY <2>4, <2>5, <2>6, <2>7 DEF TakeAnswer
<1>5. TypeOK'
  BY <1>2, <1>4 DEF TakeAnswer, Inv, TypeOK, history, userVars
<1>6. CallOK(p)'
  BY <1>2, EmptyTypes DEF CallOK, UnlockSteps, SettingsOK
<1>7. ASSUME NEW q \in Panels \ {p} PROVE CallOK(q)' /\ call'[q] = call[q]
  BY <1>2 DEF Inv, CallOK
<1>8. ~Handling(p)' /\ ~Unlocking(p)
  BY <1>1, <1>2, EmptyTypes DEF Handling, Working, Unlocking
<1>9. ASSUME NEW q \in Panels, Unlocking(q) PROVE Unlocking(q)'
  BY <1>7, <1>8, <1>9 DEF Unlocking
<1>10. UnlockSent => UnlockSent'
  BY <1>1, <1>2 DEF UnlockSent
<1> QED BY <1>5, <1>6, <1>7, <1>8, <1>9, <1>10, PanelStep
        DEF TakeAnswer, Inv, history, userVars, KeysOK, SettingsOK

\* A step that changes nothing but how long the vault has been left alone, and may lock.
LEMMA WorkerStep ==
    ASSUME Inv, worker' \in Worker, worker'.minutes = worker.minutes,
           worker'.password \in {worker.password, NoPassword}, messages' \in 0 .. MaxMessages,
           UNCHANGED <<stored, keys, panel, call, wipes, history>>
    PROVE  Inv'
<1>1. TypeOK'
  BY DEF Inv, TypeOK, history
<1> QED BY <1>1, PanelStep DEF Inv, history, KeysOK, SettingsOK, CallOK, Unlocking, UnlockSent

LEMMA PingKeeps == ASSUME Inv, NEW p \in Panels, Ping(p) PROVE Inv'
<1> DEFINE w == CheckAutoLock(worker)
           new == [w EXCEPT !.idle = 0]
<1>1. w \in Worker /\ w.minutes = worker.minutes /\ w.password \in {worker.password, NoPassword}
  BY CheckAutoLockOK DEF Inv, TypeOK
<1>2. worker' = new
  BY DEF Ping
<1>3. 0 \in 0 .. MaxMinutes + 1 /\ messages' \in 0 .. MaxMessages
  BY DEF Inv, TypeOK, Ping
<1> HIDE DEF w
<1>4. new \in Worker /\ new.minutes = w.minutes /\ new.password = w.password
  BY <1>1, <1>3 DEF Worker
<1> HIDE DEF new
<1> QED BY <1>1, <1>2, <1>3, <1>4, WorkerStep DEF Ping, history

LEMMA AlarmLocksKeeps == ASSUME Inv, AlarmLocks PROVE Inv'
BY CheckAutoLockOK, WorkerStep DEF AlarmLocks, Inv, TypeOK, userVars, history

LEMMA TickKeeps == ASSUME Inv, Tick PROVE Inv'
<1> DEFINE new == [worker EXCEPT !.idle = worker.idle + 1]
<1>1. worker \in Worker /\ worker' = new /\ worker.idle <= MaxMinutes
  BY DEF Inv, TypeOK, Tick
<1>2. worker.idle + 1 \in 0 .. MaxMinutes + 1
  BY <1>1 DEF Worker
<1>3. new \in Worker /\ new.minutes = worker.minutes /\ new.password = worker.password
  BY <1>1, <1>2 DEF Worker
<1> HIDE DEF new
<1> QED BY <1>1, <1>3, WorkerStep DEF Tick, Inv, TypeOK, userVars, history

\* All handlers end, and the memory of the worker is gone.
LEMMA WorkerStopsKeeps == ASSUME Inv, WorkerStops PROVE Inv'
<1>1. ASSUME NEW p \in Panels
      PROVE  /\ call'[p] \in Call /\ ~Handling(p)' /\ CallOK(p)'
             /\ ~Handling(p) /\ call[p].step # "hung" => call'[p] = call[p]
  <2>1. call[p] \in Call /\ CallOK(p)
    BY DEF Inv, TypeOK
  <2>2. CASE Handling(p) \/ call[p].step = "hung"
    <3> DEFINE new == [call[p] EXCEPT !.step = "answered", !.ok = FALSE]
    <3>1. call'[p] = new
      BY <2>2 DEF WorkerStops
    <3>2. new \in Call /\ new.step = "answered" /\ new.read = call[p].read
      BY <2>1 DEF Call
    <3> HIDE DEF new
    <3> QED BY <2>1, <2>2, <3>1, <3>2 DEF Handling, Working, CallOK, UnlockSteps
  <2>3. CASE ~(Handling(p) \/ call[p].step = "hung")
    <3>1. call'[p] = call[p]
      BY <2>3 DEF WorkerStops
    <3> QED BY <2>1, <2>3, <3>1 DEF Handling, CallOK
  <2> QED BY <2>2, <2>3
<1>2. call' \in [Panels -> Call]
  BY <1>1 DEF WorkerStops
<1>3. TypeOK'
  BY <1>2, EmptyTypes DEF WorkerStops, Inv, TypeOK, userVars, history
<1>4. ~Unlocked'
  BY EmptyTypes DEF WorkerStops, Unlocked
<1>5. ASSUME ~overlapped' PROVE ApartOK'
  BY <1>4, <1>5 DEF WorkerStops, Inv, ApartOK, history
<1>6. OneHandler' /\ (\A q \in Panels : Handling(q) => AloneOK(q))'
  BY <1>1 DEF OneHandler
<1> QED BY <1>1, <1>3, <1>5, <1>6 DEF WorkerStops, Inv, KeysOK, SettingsOK, userVars, history

-----------------------------------------------------------------------------
(***************************************************************************)
(* What the worker does.                                                   *)
(***************************************************************************)
\* The vault stays known to the handler when only its own step changes.
LEMMA OutdatedKept ==
    ASSUME NEW p \in Panels, OthersWait(p), stored'.envelope = stored.envelope,
           call[p].step # "sent" \/ call[p].kind # "UNLOCK"
    PROVE  Outdated => Outdated'
BY SentKept DEF Outdated

\* A handler that works on is alone, unless messages have overlapped.
LEMMA WorksAlone ==
    ASSUME Inv, NEW p \in Panels, Handling(p), ~overlapped
    PROVE  ApartOK /\ AloneOK(p) /\ \A q \in Panels \ {p} : ~Handling(q)
BY DEF Inv, OneHandler

\* A message that is received while no other is handled finds the worker at rest.
LEMMA ReceivesAlone ==
    ASSUME Inv, NEW p \in Panels, NEW kind, Receives(p, kind)
    PROVE  /\ overlapped' \in BOOLEAN
           /\ ~overlapped' => ~overlapped /\ ApartOK /\ \A q \in Panels : ~Handling(q)
BY DEF Inv, TypeOK, Receives

LEMMA ReceiveGetStateKeeps == ASSUME Inv, NEW p \in Panels, ReceiveGetState(p) PROVE Inv'
<1> DEFINE w == CheckAutoLock(worker)
<1>1. /\ w \in Worker /\ w.minutes = worker.minutes /\ w.password \in {worker.password, NoPassword}
      /\ worker' = w
  BY CheckAutoLockOK DEF Inv, TypeOK, ReceiveGetState
<1> HIDE DEF w
<1>2. call[p].step = "sent" /\ call[p].kind = "GET_STATE" /\ call[p] \in Call /\ CallOK(p)
  BY DEF ReceiveGetState, Receives, Inv, TypeOK
<1>3. /\ overlapped' \in BOOLEAN
      /\ ~overlapped' => ~overlapped /\ ApartOK /\ \A q \in Panels : ~Handling(q)
  BY ReceivesAlone DEF ReceiveGetState
<1>4. UNCHANGED <<stored, keys, panel, messages, wipes, mayHold>>
  BY DEF ReceiveGetState, userVars
<1>5. ~Unlocking(p)
  BY <1>2 DEF Unlocking
<1>6. SettingsOK(stored) /\ stored \in Stored
  BY DEF Inv, TypeOK
<1>7. CASE worker'.password # NoPassword
  <2>1. worker'.password = worker.password /\ worker'.password \in MaybePassword
    BY <1>1, <1>7 DEF Worker
  <2>2. MovedTo(p, "answered")
    BY <1>7, <2>1, AnswerOK DEF ReceiveGetState, Inv
  <2>3. TypeOK'
    BY <1>1, <1>3, <1>4, <2>2 DEF Inv, TypeOK, MovedTo
  <2>4. CallOK(p)' /\ ~Handling(p)'
    BY <1>2, <2>2 DEF CallOK, MovedTo, UnlockSteps, Handling, Working
  <2>5. NobodyUnlocks' => NobodyUnlocks
    BY <1>5, <2>2 DEF NobodyUnlocks, MovedTo, OthersWait, Unlocking
  <2>6. ~overlapped' => ApartOK'
    BY <1>1, <1>3, <1>4, <2>1, <2>5 DEF ApartOK, Unlocked
  <2> QED BY <1>3, <1>4, <1>6, <2>2, <2>3, <2>4, <2>6, HandlerStep
          DEF Inv, KeysOK, SettingsOK, MovedTo
<1>8. CASE worker'.password = NoPassword
  <2> DEFINE new == [call[p] EXCEPT !.step = "settings", !.read = stored]
  <2>1. call' = [call EXCEPT ![p] = new]
    BY <1>8 DEF ReceiveGetState
  <2>2. new \in Call /\ new.step = "settings" /\ new.kind = "GET_STATE" /\ new.read = stored
    BY <1>2, <1>6 DEF Call, Working
  <2> HIDE DEF new
  <2>3. call' \in [Panels -> Call] /\ call'[p] = new /\ OthersWait(p)
    BY <2>1, <2>2 DEF Inv, TypeOK, OthersWait
  <2>4. TypeOK'
    BY <1>1, <1>3, <1>4, <2>3 DEF Inv, TypeOK
  <2>5. CallOK(p)'
    BY <1>6, <2>2, <2>3 DEF CallOK, UnlockSteps
  <2>6. ~overlapped' => ApartOK' /\ AloneOK(p)'
    <3>1. ~Unlocked'
      BY <1>8 DEF Unlocked
    <3>2. ASSUME ~overlapped' PROVE ApartOK'
      BY <1>3, <1>4, <3>1, <3>2 DEF ApartOK
    <3>3. ASSUME ~overlapped', ~mayHold' PROVE stored.saved = NoSaved
      BY <1>3, <1>4, <3>3 DEF ApartOK
    <3> QED BY <1>4, <2>2, <2>3, <3>1, <3>2, <3>3 DEF AloneOK
  <2> QED BY <1>3, <1>4, <1>6, <2>3, <2>4, <2>5, <2>6, HandlerStep DEF Inv, KeysOK, SettingsOK
<1> QED BY <1>7, <1>8

LEMMA UseSettingsKeeps == ASSUME Inv, NEW p \in Panels, UseSettings(p) PROVE Inv'
<1> DEFINE read == call[p].read
           minutes == IF read.minutes # 0 THEN read.minutes ELSE worker.minutes
           new == [worker EXCEPT !.minutes = minutes]
<1>1. /\ call[p].step = "settings" /\ call[p].kind = "GET_STATE" /\ SettingsOK(read)
      /\ Handling(p) /\ CallOK(p) /\ read \in Stored
  BY DEF UseSettings, Inv, TypeOK, Call, CallOK, Handling, Working
<1>2. worker \in Worker /\ minutes \in Minutes
  BY <1>1 DEF Inv, TypeOK, Worker, Stored
<1>3. worker' = new
  BY DEF UseSettings
<1> HIDE DEF minutes
<1>4. new \in Worker /\ new.minutes = minutes /\ new.password = worker.password
  BY <1>2 DEF Worker
<1> HIDE DEF new
<1>5. UNCHANGED <<stored, keys, panel, messages, wipes, history>>
  BY DEF UseSettings, userVars
<1>6. ~Unlocking(p)
  BY <1>1 DEF Unlocking
<1>7. ~overlapped => ApartOK /\ AloneOK(p) /\ ~Unlocked' /\ \A q \in Panels \ {p} : ~Handling(q)
  BY <1>1, <1>3, <1>4, WorksAlone DEF AloneOK, Unlocked
<1>8. ASSUME ~overlapped PROVE ApartOK'
  BY <1>5, <1>7, <1>8 DEF ApartOK, history
<1>9. CASE read.required \/ read.saved = NoSaved \/ read.envelope = NoPassword
  <2>1. MovedTo(p, "answered")
    <3>1. Answer(p, FALSE, NoPassword) /\ NoPassword \in MaybePassword
      BY <1>9 DEF UseSettings, MaybePassword
    <3> QED BY <3>1, AnswerOK DEF Inv
  <2>2. TypeOK'
    BY <1>3, <1>4, <1>5, <2>1 DEF Inv, TypeOK, MovedTo, history
  <2>3. CallOK(p)' /\ ~Handling(p)'
    BY <1>1, <2>1 DEF CallOK, MovedTo, UnlockSteps, Handling, Working
  <2> QED BY <1>5, <1>7, <1>8, <2>1, <2>2, <2>3, HandlerStep
          DEF Inv, KeysOK, SettingsOK, MovedTo, history
<1>10. CASE ~(read.required \/ read.saved = NoSaved \/ read.envelope = NoPassword)
  <2>1. MovedTo(p, "unwrapping")
    BY <1>10, GotoOK DEF UseSettings, Inv, Working
  <2>2. TypeOK'
    BY <1>3, <1>4, <1>5, <2>1 DEF Inv, TypeOK, MovedTo, history
  <2>3. CallOK(p)'
    BY <1>1, <1>10, <2>1 DEF CallOK, MovedTo, UnlockSteps
  <2>4. worker'.minutes = read.minutes
    BY <1>1, <1>3, <1>4, <1>10 DEF SettingsOK, minutes
  <2>5. Outdated => Outdated'
    BY <1>1, <1>5, <2>1, OutdatedKept DEF MovedTo
  <2>6. ASSUME ~overlapped PROVE AloneOK(p)'
    <3>1. mayHold
      BY <1>7, <1>10, <2>6 DEF AloneOK
    <3> QED BY <1>1, <1>5, <1>7, <2>1, <2>4, <2>5, <2>6, <3>1 DEF AloneOK, MovedTo, history
  <2> QED BY <1>5, <1>7, <1>8, <2>1, <2>2, <2>3, <2>6, HandlerStep
          DEF Inv, KeysOK, SettingsOK, MovedTo, history
<1> QED BY <1>9, <1>10

\* A handler that gives up: the worker is locked, the password saved may be removed.
LEMMA GivesUp ==
    ASSUME Inv, NEW p \in Panels, Handling(p), MovedTo(p, "answered"),
           worker' = Locked(worker), stored' \in {stored, [stored EXCEPT !.saved = NoSaved]},
           keys' \in [made : 0 .. MaxWipes + 1, current : 0 .. MaxWipes + 1], KeysOK',
           UNCHANGED <<panel, messages, wipes, history>>
    PROVE  Inv'
<1>1. worker' \in Worker /\ ~Unlocked'
  BY LockedOK DEF Inv, TypeOK, Unlocked
<1>2. /\ stored' \in Stored /\ stored'.saved \in {stored.saved, NoSaved}
      /\ stored'.required = stored.required /\ stored'.minutes = stored.minutes
  BY DEF Inv, TypeOK, Stored
<1>3. TypeOK'
  BY <1>1, <1>2 DEF Inv, TypeOK, MovedTo, history
<1>4. SettingsOK(stored)'
  BY <1>2 DEF Inv, SettingsOK
<1>5. CallOK(p)' /\ ~Handling(p)'
  BY DEF Inv, CallOK, MovedTo, UnlockSteps, Handling, Working
<1>6. ~overlapped => ApartOK /\ \A q \in Panels \ {p} : ~Handling(q)
  BY WorksAlone
<1>7. ASSUME ~overlapped PROVE ApartOK'
  BY <1>1, <1>2, <1>6, <1>7 DEF ApartOK, history
<1> QED BY <1>3, <1>4, <1>5, <1>6, <1>7, HandlerStep DEF MovedTo, history

\* A key is made only when there is none.
LEMMA KeyMade ==
    ASSUME Inv, keys.current = 0, keys' = [made |-> keys.made + 1, current |-> keys.made + 1],
           wipes' = wipes
    PROVE  /\ keys' \in [made : 0 .. MaxWipes + 1, current : 0 .. MaxWipes + 1] /\ KeysOK'
           /\ keys.made + 1 \in 1 .. MaxWipes + 1
<1>1. keys.made \in Nat /\ wipes \in 0 .. MaxWipes /\ keys.made <= wipes
  BY DEF Inv, TypeOK, KeysOK
<1>2. keys.made + 1 \in 1 .. MaxWipes + 1
  BY <1>1
<1>3. keys'.made = keys.made + 1 /\ keys'.current = keys.made + 1
  OBVIOUS
<1> QED BY <1>1, <1>2, <1>3 DEF KeysOK

\* The promise is never settled.
LEMMA Hangs ==
    ASSUME Inv, NEW p \in Panels, Handling(p), MovedTo(p, "hung"),
           UNCHANGED <<worker, stored, keys, panel, messages, wipes, history>>
    PROVE  Inv'
<1>1. TypeOK'
  BY DEF Inv, TypeOK, MovedTo, history
<1>2. CallOK(p)' /\ ~Handling(p)'
  BY DEF Inv, CallOK, MovedTo, UnlockSteps, Handling, Working
<1>3. ~overlapped => ApartOK /\ \A q \in Panels \ {p} : ~Handling(q)
  BY WorksAlone
<1>4. Unlocking(p) => Unlocking(p)'
  BY DEF Unlocking, MovedTo
<1>5. NobodyUnlocks' => NobodyUnlocks
  BY <1>4 DEF NobodyUnlocks, MovedTo, OthersWait, Unlocking
<1>6. ASSUME ~overlapped PROVE ApartOK'
  BY <1>3, <1>5, <1>6 DEF ApartOK, Unlocked, history
<1> QED BY <1>1, <1>2, <1>3, <1>6, HandlerStep DEF Inv, KeysOK, SettingsOK, MovedTo, history

LEMMA UnwrapKeeps == ASSUME Inv, NEW p \in Panels, Unwrap(p) PROVE Inv'
<1> DEFINE read == call[p].read
<1>1. /\ call[p].step = "unwrapping" /\ call[p].kind = "GET_STATE" /\ Handling(p) /\ CallOK(p)
      /\ read \in Stored /\ read.saved # NoSaved /\ read.envelope # NoPassword
  BY DEF Unwrap, Inv, TypeOK, Call, CallOK, Handling, Working
<1>2. UNCHANGED <<panel, messages, wipes, history>>
  BY DEF Unwrap, userVars
<1>3. CASE read.saved.key = keys.current /\ read.saved.password = read.envelope
  <2>1. worker' = Opened(worker, read.envelope) /\ read.envelope \in MaybePassword
    BY <1>1, <1>3 DEF Unwrap, Stored
  <2>2. worker' \in Worker /\ worker'.password = read.envelope /\ worker'.minutes = worker.minutes
    BY <2>1, OpenedOK DEF Inv, TypeOK
  <2>3. MovedTo(p, "answered") /\ UNCHANGED <<stored, keys>>
    BY <1>3, <2>1, AnswerOK DEF Unwrap, Inv
  <2>4. TypeOK'
    BY <1>2, <2>2, <2>3 DEF Inv, TypeOK, MovedTo, history
  <2>5. CallOK(p)' /\ ~Handling(p)'
    BY <1>1, <2>3 DEF CallOK, MovedTo, UnlockSteps, Handling, Working
  <2>6. ASSUME ~overlapped PROVE ApartOK' /\ \A q \in Panels \ {p} : ~Handling(q)
    <3>1. ApartOK /\ AloneOK(p) /\ \A q \in Panels \ {p} : ~Handling(q)
      BY <1>1, <2>6, WorksAlone
    <3>2. mayHold
      BY <1>1, <3>1 DEF AloneOK
    <3>3. Outdated => Outdated'
      BY <1>1, <2>3, OutdatedKept DEF MovedTo
    <3>4. stored'.envelope # NoPassword /\ NobodyUnlocks' =>
              worker'.minutes = stored'.minutes /\ worker'.password = stored'.envelope
      BY <1>1, <2>2, <2>3, <3>1, <3>3, SentIsSeen DEF AloneOK, Outdated
    <3> QED BY <1>2, <2>3, <3>1, <3>2, <3>4 DEF ApartOK, history
  <2> QED BY <1>2, <2>3, <2>4, <2>5, <2>6, HandlerStep
          DEF Inv, KeysOK, SettingsOK, MovedTo, history
<1>4. CASE ~(read.saved.key = keys.current /\ read.saved.password = read.envelope)
  <2>1. CASE /\ worker' = Locked(worker) /\ stored' = [stored EXCEPT !.saved = NoSaved]
             /\ keys' = IF keys.current # 0 THEN keys
                        ELSE [made |-> keys.made + 1, current |-> keys.made + 1]
             /\ Answer(p, FALSE, NoPassword)
    <3>1. MovedTo(p, "answered")
      BY <2>1, AnswerOK DEF Inv, MaybePassword
    <3>2. keys' \in [made : 0 .. MaxWipes + 1, current : 0 .. MaxWipes + 1] /\ KeysOK'
      <4>1. CASE keys.current # 0
        BY <1>2, <2>1, <4>1 DEF Inv, TypeOK, KeysOK
      <4>2. CASE keys.current = 0
        BY <1>2, <2>1, <4>2, KeyMade
      <4> QED BY <4>1, <4>2
    <3> QED BY <1>1, <1>2, <2>1, <3>1, <3>2, GivesUp
  <2>2. CASE Goto(p, "hung") /\ UNCHANGED <<worker, stored, keys>>
    BY <1>1, <1>2, <2>2, GotoOK, Hangs DEF Inv
  <2> QED BY <1>4, <2>1, <2>2 DEF Unwrap
<1> QED BY <1>3, <1>4

LEMMA ReceiveUnlockKeeps == ASSUME Inv, NEW p \in Panels, ReceiveUnlock(p) PROVE Inv'
<1> DEFINE w == CheckAutoLock(worker)
           new == [w EXCEPT !.minutes = call[p].minutes]
           newCall == [call[p] EXCEPT !.step = "reading", !.read = stored]
<1>1. w \in Worker
  BY CheckAutoLockOK DEF Inv, TypeOK
<1>2. worker' = new /\ call' = [call EXCEPT ![p] = newCall] /\ mayHold' = TRUE
  BY DEF ReceiveUnlock
<1> HIDE DEF w
<1>3. /\ call[p].kind = "UNLOCK" /\ call[p] \in Call /\ stored \in Stored
      /\ SettingsOK(stored)
  BY DEF ReceiveUnlock, Receives, Inv, TypeOK
<1>4. call[p].minutes \in Minutes
  BY <1>3 DEF Call
<1>5. new \in Worker
  BY <1>1, <1>4 DEF Worker
<1> HIDE DEF new
<1>6. newCall \in Call /\ newCall.step = "reading" /\ newCall.kind = "UNLOCK" /\ newCall.read = stored
  BY <1>3 DEF Call, Working
<1> HIDE DEF newCall
<1>7. call' \in [Panels -> Call] /\ call'[p] = newCall /\ OthersWait(p)
  BY <1>2, <1>6 DEF Inv, TypeOK, OthersWait
<1>8. /\ overlapped' \in BOOLEAN
      /\ ~overlapped' => ~overlapped /\ ApartOK /\ \A q \in Panels : ~Handling(q)
  BY ReceivesAlone DEF ReceiveUnlock
<1>9. UNCHANGED <<stored, keys, panel, messages, wipes>>
  BY DEF ReceiveUnlock, userVars
<1>10. TypeOK'
  BY <1>2, <1>5, <1>7, <1>8, <1>9 DEF Inv, TypeOK
<1>11. CallOK(p)'
  BY <1>3, <1>6, <1>7 DEF CallOK, UnlockSteps
<1>12. ~NobodyUnlocks'
  BY <1>6, <1>7, UnlockingIsSeen DEF Unlocking, Working
<1>13. ASSUME ~overlapped' PROVE ApartOK' /\ AloneOK(p)'
  BY <1>2, <1>6, <1>7, <1>8, <1>9, <1>12, <1>13 DEF ApartOK, AloneOK
<1> QED BY <1>7, <1>8, <1>9, <1>10, <1>11, <1>13, HandlerStep DEF Inv, KeysOK, SettingsOK

LEMMA VerifyKeeps == ASSUME Inv, NEW p \in Panels, Verify(p) PROVE Inv'
<1> DEFINE c == call[p]
<1>1. c.step = "reading" /\ c.kind = "UNLOCK" /\ Handling(p) /\ CallOK(p)
  BY DEF Verify, Inv, CallOK, UnlockSteps, Handling, Working
<1>2. UNCHANGED <<stored, keys, panel, messages, wipes, history>>
  BY DEF Verify, userVars
<1>3. NoPassword \in MaybePassword
  BY DEF MaybePassword
<1>4. CASE c.read.envelope = NoPassword
  <2>1. MovedTo(p, "answered") /\ worker' = worker
    BY <1>3, <1>4, AnswerOK DEF Verify, Inv
  <2>2. TypeOK'
    BY <1>2, <2>1 DEF Inv, TypeOK, MovedTo, history
  <2>3. CallOK(p)' /\ ~Handling(p)'
    BY <1>1, <2>1 DEF CallOK, MovedTo, UnlockSteps, Handling, Working
  <2>4. ASSUME ~overlapped PROVE ApartOK' /\ \A q \in Panels \ {p} : ~Handling(q)
    <3>1. ApartOK /\ AloneOK(p) /\ \A q \in Panels \ {p} : ~Handling(q)
      BY <1>1, <2>4, WorksAlone
    <3>2. mayHold
      BY <1>1, <3>1 DEF AloneOK
    <3>3. Outdated => Outdated'
      BY <1>1, <1>2, <2>1, OutdatedKept DEF MovedTo
    <3>4. ~(stored'.envelope # NoPassword /\ NobodyUnlocks')
      BY <1>2, <1>4, <3>1, <3>3, SentIsSeen DEF AloneOK, Outdated
    <3> QED BY <1>2, <3>1, <3>2, <3>4 DEF ApartOK, history
  <2> QED BY <1>2, <2>1, <2>2, <2>3, <2>4, HandlerStep
          DEF Inv, KeysOK, SettingsOK, MovedTo, history
<1>5. CASE c.read.envelope # NoPassword /\ c.password # c.read.envelope
  <2>1. MovedTo(p, "answered") /\ worker' = Locked(worker)
    BY <1>3, <1>5, AnswerOK DEF Verify, Inv
  <2> QED BY <1>1, <1>2, <2>1, GivesUp DEF Inv, TypeOK, KeysOK
<1>6. CASE c.read.envelope # NoPassword /\ c.password = c.read.envelope
  <2>1. Goto(p, "verified") /\ worker' = worker
    BY <1>6 DEF Verify
  <2>2. MovedTo(p, "verified") /\ call'[p].password = call[p].password
    BY <2>1, GotoOK DEF Inv, Working
  <2>3. TypeOK'
    BY <1>2, <2>1, <2>2 DEF Inv, TypeOK, MovedTo, history
  <2>4. CallOK(p)'
    BY <1>1, <1>6, <2>2 DEF CallOK, MovedTo, UnlockSteps
  <2>5. ~NobodyUnlocks'
    BY <1>1, <2>2, UnlockingIsSeen DEF Unlocking, Working, MovedTo
  <2>6. Outdated => Outdated'
    BY <1>1, <1>2, <2>2, OutdatedKept DEF MovedTo
  <2>7. ASSUME ~overlapped PROVE ApartOK' /\ AloneOK(p)' /\ \A q \in Panels \ {p} : ~Handling(q)
    <3>1. ApartOK /\ AloneOK(p) /\ \A q \in Panels \ {p} : ~Handling(q)
      BY <1>1, <2>7, WorksAlone
    <3>2. mayHold
      BY <1>1, <3>1 DEF AloneOK
    <3> QED BY <1>1, <1>2, <2>1, <2>2, <2>5, <2>6, <3>1, <3>2
            DEF ApartOK, AloneOK, MovedTo, Unlocked, history
  <2> QED BY <1>2, <2>2, <2>3, <2>4, <2>7, HandlerStep
          DEF Inv, KeysOK, SettingsOK, MovedTo, history
<1> QED BY <1>4, <1>5, <1>6

\* A step of the handler of an UNLOCK that has the right password, and that stays at work.
\* It saves the password only with the choice to, and removes it before the choice not to.
LEMMA UnlockGoesOn ==
    ASSUME Inv, NEW p \in Panels, Handling(p), call[p].kind = "UNLOCK",
           call[p].step \in UnlockSteps \ {"reading"},
           TypeOK', KeysOK', SettingsOK(stored)', OthersWait(p),
           NEW step \in {"keyed", "removed", "written"},
           call'[p].step = step, call'[p].kind = "UNLOCK", call'[p].read = call[p].read,
           call'[p].password = call[p].password, step = "keyed" => call'[p].key # 0,
           UNCHANGED <<worker, history>>, stored'.envelope = stored.envelope,
           step = "removed" => stored'.saved = NoSaved,
           step = "written" => stored'.minutes = worker.minutes,
           ~overlapped /\ AloneOK(p) /\ ApartOK /\ stored'.required => stored'.saved = NoSaved
    PROVE  Inv'
<1>1. CallOK(p)'
  <2>1. CallOK(p)
    BY DEF Inv
  <2> QED BY <2>1 DEF CallOK, UnlockSteps
<1>2. ~NobodyUnlocks'
  BY UnlockingIsSeen DEF Unlocking, Working
<1>3. Outdated => Outdated'
  BY OutdatedKept DEF UnlockSteps
<1>4. ASSUME ~overlapped PROVE ApartOK' /\ AloneOK(p)' /\ \A q \in Panels \ {p} : ~Handling(q)
  <2>1. ApartOK /\ AloneOK(p) /\ \A q \in Panels \ {p} : ~Handling(q)
    BY <1>4, WorksAlone
  <2>2. mayHold
    BY <2>1 DEF AloneOK, UnlockSteps
  <2>3. ApartOK'
    BY <1>2, <1>4, <2>1, <2>2 DEF ApartOK, history
  <2>4. AloneOK(p)'
    BY <1>3, <2>1, <2>2 DEF AloneOK, history
  <2> QED BY <2>1, <2>3, <2>4
<1> QED BY <1>1, <1>4, HandlerStep DEF history

LEMMA GetWrappingKeyKeeps == ASSUME Inv, NEW p \in Panels, GetWrappingKey(p) PROVE Inv'
<1>1. /\ call[p].step = "verified" /\ call[p].kind = "UNLOCK" /\ Handling(p)
      /\ call[p] \in Call
  BY DEF GetWrappingKey, Inv, TypeOK, CallOK, UnlockSteps, Handling, Working
<1>2. UNCHANGED <<worker, stored, panel, messages, wipes, history>>
  BY DEF GetWrappingKey, userVars
<1>3. ASSUME NEW key \in 1 .. MaxWipes + 1,
             call' = [call EXCEPT ![p].step = "keyed", ![p].key = key],
             keys' \in [made : 0 .. MaxWipes + 1, current : 0 .. MaxWipes + 1], KeysOK'
      PROVE  Inv'
  <2> DEFINE new == [call[p] EXCEPT !.step = "keyed", !.key = key]
  <2>1. call' = [call EXCEPT ![p] = new]
    BY <1>3
  <2>2. key \in 0 .. MaxWipes + 1 /\ key # 0
    OBVIOUS
  <2>3. /\ new \in Call /\ new.step = "keyed" /\ new.kind = "UNLOCK" /\ new.read = call[p].read
        /\ new.password = call[p].password /\ new.key # 0
    BY <1>1, <2>2 DEF Call, Working
  <2> HIDE DEF new
  <2>4. call' \in [Panels -> Call] /\ call'[p] = new /\ OthersWait(p)
    BY <2>1, <2>3 DEF Inv, TypeOK, OthersWait
  <2>5. TypeOK'
    BY <1>2, <1>3, <2>4 DEF Inv, TypeOK, history
  <2>6. SettingsOK(stored)'
    BY <1>2 DEF Inv, SettingsOK
  <2>7. ApartOK /\ stored'.required => stored'.saved = NoSaved
    BY <1>2 DEF ApartOK
  <2> QED BY <1>1, <1>2, <1>3, <2>3, <2>4, <2>5, <2>6, <2>7, UnlockGoesOn DEF UnlockSteps
<1>4. CASE /\ keys.current # 0 /\ UNCHANGED keys
           /\ call' = [call EXCEPT ![p].step = "keyed", ![p].key = keys.current]
  <2>1. keys.current \in 1 .. MaxWipes + 1
    BY <1>4 DEF Inv, TypeOK
  <2> QED BY <1>2, <1>3, <1>4, <2>1 DEF Inv, TypeOK, KeysOK
<1>5. CASE /\ keys.current = 0
           /\ keys' = [made |-> keys.made + 1, current |-> keys.made + 1]
           /\ call' = [call EXCEPT ![p].step = "keyed", ![p].key = keys.made + 1]
  BY <1>2, <1>3, <1>5, KeyMade
<1>6. CASE Goto(p, "hung") /\ UNCHANGED keys
  BY <1>1, <1>2, <1>6, GotoOK, Hangs DEF Inv
<1> QED BY <1>4, <1>5, <1>6 DEF GetWrappingKey

LEMMA WriteWrappedKeeps == ASSUME Inv, NEW p \in Panels, WriteWrapped(p) PROVE Inv'
<1> DEFINE saved == [password |-> call[p].password, key |-> call[p].key]
           new == [stored EXCEPT !.required = FALSE, !.minutes = worker.minutes, !.saved = saved]
<1>1. /\ call[p].step = "keyed" /\ call[p].kind = "UNLOCK" /\ Handling(p)
      /\ call[p] \in Call /\ call[p].password # NoPassword /\ call[p].key # 0
  BY DEF WriteWrapped, Inv, TypeOK, CallOK, UnlockSteps, Handling, Working
<1>2. UNCHANGED <<worker, keys, panel, messages, wipes, history>>
  BY DEF WriteWrapped, userVars
<1>3. MovedTo(p, "written") /\ call'[p].password = call[p].password
  BY GotoOK DEF WriteWrapped, Inv, Working
<1>4. saved \in Saved
  <2>1. call[p].password \in Passwords
    BY <1>1 DEF Call, MaybePassword
  <2>2. call[p].key \in 1 .. MaxWipes + 1
    BY <1>1 DEF Call
  <2> QED BY <2>1, <2>2 DEF Saved
<1>5. worker.minutes \in Minutes /\ worker.minutes # 0 /\ stored \in Stored /\ stored' = new
  BY DEF Inv, TypeOK, Worker, Minutes, WriteWrapped
<1> HIDE DEF saved
<1>6. /\ new \in Stored /\ new.envelope = stored.envelope /\ ~new.required
      /\ new.minutes = worker.minutes
  BY <1>4, <1>5 DEF Stored
<1> HIDE DEF new
<1>7. TypeOK'
  BY <1>2, <1>3, <1>5, <1>6 DEF Inv, TypeOK, MovedTo, history
<1>8. SettingsOK(stored)'
  BY <1>5, <1>6 DEF SettingsOK
<1>9. KeysOK'
  BY <1>2 DEF Inv, KeysOK
<1> QED BY <1>1, <1>2, <1>3, <1>5, <1>6, <1>7, <1>8, <1>9, UnlockGoesOn DEF MovedTo, UnlockSteps

LEMMA RemoveWrappedKeeps == ASSUME Inv, NEW p \in Panels, RemoveWrapped(p) PROVE Inv'
<1> DEFINE new == [stored EXCEPT !.saved = NoSaved]
<1>1. call[p].step = "verified" /\ call[p].kind = "UNLOCK" /\ Handling(p)
  BY DEF RemoveWrapped, Inv, CallOK, UnlockSteps, Handling, Working
<1>2. UNCHANGED <<worker, keys, panel, messages, wipes, history>>
  BY DEF RemoveWrapped, userVars
<1>3. MovedTo(p, "removed") /\ call'[p].password = call[p].password
  BY GotoOK DEF RemoveWrapped, Inv, Working
<1>4. stored \in Stored /\ stored' = new
  BY DEF Inv, TypeOK, RemoveWrapped
<1>5. new \in Stored /\ new.envelope = stored.envelope /\ new.saved = NoSaved
  BY <1>4 DEF Stored
<1> HIDE DEF new
<1>6. TypeOK'
  BY <1>2, <1>3, <1>4, <1>5 DEF Inv, TypeOK, MovedTo, history
<1>7. SettingsOK(stored)'
  BY <1>4, <1>5 DEF SettingsOK
<1>8. KeysOK'
  BY <1>2 DEF Inv, KeysOK
<1> QED BY <1>1, <1>2, <1>3, <1>4, <1>5, <1>6, <1>7, <1>8, UnlockGoesOn DEF MovedTo, UnlockSteps

LEMMA WriteRequiredKeeps == ASSUME Inv, NEW p \in Panels, WriteRequired(p) PROVE Inv'
<1> DEFINE new == [stored EXCEPT !.required = TRUE, !.minutes = worker.minutes]
<1>1. call[p].step = "removed" /\ call[p].kind = "UNLOCK" /\ Handling(p)
  BY DEF WriteRequired, Inv, CallOK, UnlockSteps, Handling, Working
<1>2. UNCHANGED <<worker, keys, panel, messages, wipes, history>>
  BY DEF WriteRequired, userVars
<1>3. MovedTo(p, "written") /\ call'[p].password = call[p].password
  BY GotoOK DEF WriteRequired, Inv, Working
<1>4. worker.minutes \in Minutes /\ worker.minutes # 0 /\ stored \in Stored /\ stored' = new
  BY DEF Inv, TypeOK, Worker, Minutes, WriteRequired
<1>5. /\ new \in Stored /\ new.envelope = stored.envelope /\ new.saved = stored.saved
      /\ new.minutes = worker.minutes
  BY <1>4 DEF Stored
<1> HIDE DEF new
<1>6. TypeOK'
  BY <1>2, <1>3, <1>4, <1>5 DEF Inv, TypeOK, MovedTo, history
<1>7. SettingsOK(stored)'
  BY <1>4, <1>5 DEF SettingsOK
<1>8. AloneOK(p) => stored'.saved = NoSaved
  BY <1>1, <1>4, <1>5 DEF AloneOK
<1>9. KeysOK'
  BY <1>2 DEF Inv, KeysOK
<1> QED BY <1>1, <1>2, <1>3, <1>4, <1>5, <1>6, <1>7, <1>8, <1>9, UnlockGoesOn
        DEF MovedTo, UnlockSteps

LEMMA FinishUnlockKeeps == ASSUME Inv, NEW p \in Panels, FinishUnlock(p) PROVE Inv'
<1>1. /\ call[p].step = "written" /\ call[p].kind = "UNLOCK" /\ Handling(p) /\ CallOK(p)
      /\ call[p].password = call[p].read.envelope /\ call[p].password # NoPassword
      /\ call[p].password \in MaybePassword
  BY DEF FinishUnlock, Inv, TypeOK, Call, CallOK, UnlockSteps, Handling, Working
<1>2. UNCHANGED <<stored, keys, panel, messages, wipes, history>>
  BY DEF FinishUnlock, userVars
<1>3. /\ worker' \in Worker /\ worker'.password = call[p].read.envelope
      /\ worker'.minutes = worker.minutes
  BY <1>1, OpenedOK DEF Inv, TypeOK, FinishUnlock
<1>4. MovedTo(p, "answered")
  BY <1>1, AnswerOK DEF FinishUnlock, Inv
<1>5. TypeOK'
  BY <1>2, <1>3, <1>4 DEF Inv, TypeOK, MovedTo, history
<1>6. CallOK(p)' /\ ~Handling(p)'
  BY <1>1, <1>4 DEF CallOK, MovedTo, UnlockSteps, Handling, Working
<1>7. ASSUME ~overlapped PROVE ApartOK' /\ \A q \in Panels \ {p} : ~Handling(q)
  <2>1. ApartOK /\ AloneOK(p) /\ \A q \in Panels \ {p} : ~Handling(q)
    BY <1>1, <1>7, WorksAlone
  <2>2. mayHold
    BY <1>1, <2>1 DEF AloneOK
  <2>3. Outdated => Outdated'
    BY <1>1, <1>2, <1>4, OutdatedKept DEF MovedTo
  <2>4. stored'.envelope # NoPassword /\ NobodyUnlocks' =>
            worker'.minutes = stored'.minutes /\ worker'.password = stored'.envelope
    BY <1>1, <1>2, <1>3, <2>1, <2>3, SentIsSeen DEF AloneOK, Outdated
  <2> QED BY <1>2, <2>1, <2>2, <2>4 DEF ApartOK, history
<1> QED BY <1>2, <1>4, <1>5, <1>6, <1>7, HandlerStep DEF Inv, KeysOK, SettingsOK, MovedTo, history

LEMMA ReceiveLockKeeps == ASSUME Inv, NEW p \in Panels, ReceiveLock(p) PROVE Inv'
<1> DEFINE new == [stored EXCEPT !.saved = NoSaved]
<1>1. call[p].step = "sent" /\ call[p].kind = "LOCK" /\ CallOK(p)
  BY DEF ReceiveLock, Receives, Inv
<1>2. /\ overlapped' \in BOOLEAN
      /\ ~overlapped' => ~overlapped /\ ApartOK /\ \A q \in Panels : ~Handling(q)
  BY ReceivesAlone DEF ReceiveLock
<1>3. UNCHANGED <<keys, panel, messages, wipes>> /\ mayHold' \in BOOLEAN
  BY DEF ReceiveLock, userVars
<1>4. worker' \in Worker /\ ~Unlocked'
  BY LockedOK DEF ReceiveLock, Inv, TypeOK, Unlocked
<1>5. stored' = new /\ stored \in Stored
  BY DEF ReceiveLock, Inv, TypeOK
<1>6. new \in Stored /\ new.saved = NoSaved
  BY <1>5 DEF Stored
<1> HIDE DEF new
<1>7. MovedTo(p, "answered")
  BY AnswerOK DEF ReceiveLock, Inv, MaybePassword
<1>8. TypeOK'
  BY <1>2, <1>3, <1>4, <1>5, <1>6, <1>7 DEF Inv, TypeOK, MovedTo
<1>9. SettingsOK(stored)' /\ ApartOK'
  BY <1>4, <1>5, <1>6 DEF SettingsOK, ApartOK
<1>10. CallOK(p)' /\ ~Handling(p)'
  BY <1>1, <1>7 DEF CallOK, MovedTo, UnlockSteps, Handling, Working
<1> QED BY <1>2, <1>3, <1>7, <1>8, <1>9, <1>10, HandlerStep DEF Inv, KeysOK, MovedTo

-----------------------------------------------------------------------------
(***************************************************************************)
(* The invariant holds of every reachable state.                           *)
(***************************************************************************)
LEMMA InitInv == Init => Inv
<1> SUFFICES ASSUME Init PROVE Inv
  OBVIOUS
<1>1. TypeOK
  <2>1. 0 \in 0 .. MaxWipes + 1 /\ 0 \in 0 .. MaxWipes /\ 0 \in 0 .. MaxMessages
    OBVIOUS
  <2>2. keys \in [made : 0 .. MaxWipes + 1, current : 0 .. MaxWipes + 1]
    BY <2>1 DEF Init
  <2> QED BY <2>1, <2>2, EmptyTypes DEF Init, TypeOK
<1>2. KeysOK /\ SettingsOK(stored) /\ ~Unlocked
  BY EmptyTypes DEF Init, KeysOK, SettingsOK, Unlocked
<1>3. ASSUME NEW p \in Panels PROVE CallOK(p) /\ ~Handling(p)
  BY EmptyTypes DEF Init, CallOK, UnlockSteps, SettingsOK, Handling, Working
<1>4. ApartOK
  BY <1>2, EmptyTypes DEF Init, ApartOK
<1> QED BY <1>1, <1>2, <1>3, <1>4 DEF Inv, OneHandler

LEMMA StutterKeeps == ASSUME Inv, UNCHANGED vars PROVE Inv'
<1>1. TypeOK'
  BY DEF Inv, TypeOK, vars, userVars, history
<1> QED BY <1>1, WorkerStep DEF vars, userVars, history, Inv, TypeOK

LEMMA NextInv == Inv /\ [Next]_vars => Inv'
<1> SUFFICES ASSUME Inv, [Next]_vars PROVE Inv'
  OBVIOUS
<1>1. ASSUME NEW p \in Panels, UserDoes(p) PROVE Inv'
  BY <1>1, OpenPanelKeeps, ClosePanelKeeps, HandleManualLockKeeps, HandleWipeLocalKeeps,
     PingKeeps, HandleSaveSettingsKeeps, HandleSetupPasswordKeeps, HandleUnlockKeeps DEF UserDoes
<1>2. ASSUME NEW p \in Panels, Handles(p) PROVE Inv'
  BY <1>2, ReceiveGetStateKeeps, UseSettingsKeeps, UnwrapKeeps, ReceiveUnlockKeeps, VerifyKeeps,
     GetWrappingKeyKeeps, WriteWrappedKeeps, RemoveWrappedKeeps, WriteRequiredKeeps,
     FinishUnlockKeeps, ReceiveLockKeeps DEF Handles
<1> QED BY <1>1, <1>2, TakeAnswerKeeps, AlarmLocksKeeps, TickKeeps, WorkerStopsKeeps, StutterKeeps
        DEF Next

LEMMA InvAlways == Spec => []Inv
BY InitInv, NextInv, PTL DEF Spec

\* Every variable keeps to the values the code gives it; in particular the number of
\* wrapping keys stays within one more than the resets.
THEOREM TypeCorrect == Spec => []TypeOK
<1>1. Inv => TypeOK
  BY DEF Inv
<1> QED BY <1>1, InvAlways, PTL

\* Who asked to be asked for the password has none saved on the device: the saved one is
\* removed before the choice is written, and saving one writes the opposite choice with it.
THEOREM OptOutKept == Spec => []OptOutIsKept
<1>1. Inv => OptOutIsKept
  BY DEF Inv, ApartOK, OptOutIsKept
<1> QED BY <1>1, InvAlways, PTL

\* After a manual lock neither the memory of the worker nor the device has a password,
\* until one is typed, and no handler is under way that could bring one back.
THEOREM ManualLockForgetsAlways == Spec => []ManualLockForgets
<1>1. Inv => ManualLockForgets
  BY DEF Inv, ApartOK, ManualLockForgets
<1> QED BY <1>1, InvAlways, PTL

\* The auto-lock time of an open vault is the one stored, also after the worker was
\* stopped and the saved password unlocked it again.
THEOREM MinutesStayInForce == Spec => []MinutesInForce
<1>1. Inv => MinutesInForce
  BY DEF Inv, ApartOK, NobodyUnlocks, MinutesInForce
<1> QED BY <1>1, InvAlways, PTL

\* The password in the memory of the worker opens the envelope stored now, although panels
\* replace and reset the envelope behind its back.
THEOREM PasswordAlwaysOpensVault == Spec => []PasswordOpensVault
<1>1. Inv => PasswordOpensVault
  BY DEF Inv, ApartOK, NobodyUnlocks, PasswordOpensVault
<1> QED BY <1>1, InvAlways, PTL
=============================================================================
