------------------------------ MODULE Keyboard ------------------------------
(***************************************************************************)
(* device/keyboard.c: the keyboard interrupt turns scan codes into key     *)
(* codes and puts two bytes for each into KeyboardIOQueue, and a process   *)
(* that reads standard input takes them out two by two.  The handler runs  *)
(* on the stack of whatever thread it interrupts, the idle task included:  *)
(* if it blocks in ioQueuePut, that thread blocks.                         *)
(***************************************************************************)
EXTENDS IoQueue

CONSTANTS Keys,       \* the keys of the keyboard
          KeyReaders  \* processes that read standard input

\* Of the letters, "l" stands for those that have a control code.  "right" is
\* the arrow; "rctrl" and "right" are told apart by the prefix e0.
Letters == {"l", "r"}
Shifts == {"shift", "rshift"}
PlainKeys == Letters \cup Shifts \cup {"ctrl", "caps"}

\* A key code, and what it is a code of: "DOWN" is "down" with the bit for
\* capitals, "control" a code of its own.
Codes == {"l", "r", "shift", "ctrl", "caps"} \X {"down", "up", "DOWN", "control"}
NoCode == <<"-1", "none">>
E0 == <<"prefix", "e0">>

ASSUME KeyboardAssumption ==
    /\ Keys \subseteq PlainKeys \cup {"right", "rctrl"}
    /\ Bytes = Codes \X {"high", "low"}
    /\ KeyReaders \subseteq Processes
    /\ None \notin {"own", "loop"}

VARIABLES kbd,     \* flag, KeyBoardShift, KeyBoardCapsLock and KeyBoardCtrl
          pressed, \* the keys that are down
          sent,    \* scan codes on their way
          handler, \* the bytes the handler on a thread's stack has yet to put
          back,    \* where the thread it interrupted goes on: None when there
                   \* is no handler on its stack
          read,    \* where a reader is in KeyBoardRead
          high     \* the first of its two bytes

keyboardVars == <<kbd, pressed, sent, handler, back, read, high>>
keyboardAllVars == <<threadVars, ioVars, keyboardVars>>

KeyboardInit ==
    /\ Init /\ IoInit
    /\ kbd = [flag |-> FALSE, shift |-> FALSE, caps |-> FALSE, ctrl |-> FALSE]
    /\ pressed = {} /\ sent = << >>
    /\ handler = [t \in Threads |-> << >>]
    /\ back = [t \in Threads |-> None]
    /\ read = [t \in KeyReaders |-> "user"]
    /\ high = [t \in KeyReaders |-> None]

\* The scan codes of a key, "make" or "break".  Around those of an arrow the
\* keyboard pretends that a shift goes down or up.
ScanCodes(k, how) ==
    CASE k = "right" -> {fake \o <<E0, <<how, "right">>>> :
                           fake \in {<< >>, <<E0, <<"make", "shift">>>>,
                                    <<E0, <<"break", "shift">>>>}}
      [] k = "rctrl" -> {<<E0, <<how, "ctrl">>>>}
      [] OTHER       -> {<< <<how, k>> >>}

\* A key goes down, or down again while it is held, or up.
Strike(k) ==
    /\ sent = << >>
    /\ \/ sent' \in ScanCodes(k, "make") /\ pressed' = pressed \cup {k}
       \/ /\ k \in pressed
          /\ sent' \in ScanCodes(k, "break") /\ pressed' = pressed \ {k}
    /\ UNCHANGED <<threadVars, ioVars, kbd, handler, back, read, high>>

Way(how) == IF how = "make" THEN "down" ELSE "up"

\* ScanCodeConvertTable.  Its two columns, without and with shift, differ only
\* in keys that are not here.
ScanCodeConvertTable(code) ==
    CASE code[2] \in Shifts    -> <<"shift", Way(code[1])>>
      [] code[2] \in PlainKeys \ Shifts -> <<code[2], Way(code[1])>>
      [] OTHER -> NoCode

\* Wrong: the code after a prefix is looked up like any other.
DecodeIgnoringPrefix(code) ==
    IF code = E0 THEN NoCode
    ELSE IF code[2] = "right" THEN <<"r", Way(code[1])>>
    ELSE ScanCodeConvertTable(code)

\* Of the codes after the prefix only those of the arrows count; the right
\* arrow is given the code of the letter R.
Decode(code) ==
    IF code = E0 THEN NoCode
    ELSE IF ~kbd.flag THEN ScanCodeConvertTable(code)
    ELSE IF code[2] = "right" THEN <<"r", Way(code[1])>> ELSE NoCode

\* flag, and the keys that are states.
KeyState(code, decode) ==
    [flag  |-> code = E0,
     shift |-> CASE decode = <<"shift", "down">> -> TRUE
                 [] decode = <<"shift", "up">> -> FALSE
                 [] OTHER -> kbd.shift,
     caps  |-> (decode = <<"caps", "down">>) # kbd.caps,
     ctrl  |-> CASE decode = <<"ctrl", "down">> -> TRUE
                 [] decode = <<"ctrl", "up">> -> FALSE
                 [] OTHER -> kbd.ctrl]

\* What is put into the queue: a capital has no control code.
KeyBoardFunction(state, decode) ==
    IF decode \notin Letters \X {"down"} THEN decode
    ELSE IF state.shift \/ state.caps THEN <<decode[1], "DOWN">>
    ELSE IF state.ctrl /\ decode[1] = "l" THEN <<"l", "control">>
    ELSE decode

\* Wrong: the low byte goes in first.
HalvesLowFirst(code) == << <<code, "low">>, <<code, "high">> >>

Halves(code) == << <<code, "high">>, <<code, "low">> >>

\* A scan code arrives.  The handler tests once whether the queue is full, and
\* then puts both bytes; with the queue full the key is dropped.
keyboard_interrupt ==
    LET t == q.cur
        decode == Decode(Head(sent))
        state == KeyState(Head(sent), decode) IN
    /\ InterruptsOn /\ sent # << >>
    /\ sent' = Tail(sent)
    /\ kbd' = state
    /\ IF decode = NoCode \/ ioQueueFull
       THEN pc' = AfterInterrupt /\ UNCHANGED <<handler, back, intr>>
       ELSE /\ handler' =
                 [handler EXCEPT ![t] = Halves(KeyBoardFunction(state, decode))]
            /\ back' = [back EXCEPT ![t] = AfterInterrupt[t]]
            /\ pc' = [pc EXCEPT ![t] = "own"]
            /\ intr' = [intr EXCEPT ![t] = FALSE]
    /\ UNCHANGED <<q, value, wait, holder, want, held, ioVars,
                   pressed, read, high>>

HandlerPut(t) ==
    /\ OutsideIo(t) /\ handler[t] # << >>
    /\ CallPut(t, Head(handler[t]))
    /\ handler' = [handler EXCEPT ![t] = Tail(@)]
    /\ UNCHANGED <<threadVars, buff, head, tail, producer, consumer,
                   kbd, pressed, sent, back, read, high>>

\* iret: back to what was interrupted.
HandlerReturn(t) ==
    /\ OutsideIo(t) /\ back[t] # None /\ handler[t] = << >>
    /\ pc' = [pc EXCEPT ![t] = back[t]]
    /\ back' = [back EXCEPT ![t] = None]
    /\ intr' = [intr EXCEPT ![t] = TRUE]
    /\ UNCHANGED <<q, value, wait, holder, want, held, ioVars,
                   kbd, pressed, sent, handler, read, high>>

InHandler(t) == back[t] # None

keyVars == <<kbd, pressed, sent, handler, back>>

\* KeyBoardRead of one character in a system call: KeyBoardGet, the first
\* ioQueueGet ...
GetHigh(t) ==
    /\ OutsideIo(t) /\ read[t] = "user"
    /\ SyscallEnter(t)
    /\ CallGet(t)
    /\ read' = [read EXCEPT ![t] = "high"]
    /\ UNCHANGED <<buff, head, tail, producer, consumer, keyVars, high>>

\* ... the second ...
GetLow(t) ==
    /\ OutsideIo(t) /\ read[t] = "high"
    /\ high' = [high EXCEPT ![t] = data[t]]
    /\ CallGet(t)
    /\ read' = [read EXCEPT ![t] = "low"]
    /\ UNCHANGED <<threadVars, buff, head, tail, producer, consumer, keyVars>>

\* KeyBoardConvertTo: does a key code stand for a character?
IsCharacter(code) == code[1] \in Letters /\ code[2] # "up"

\* ... and the return with the character, or another round of the loop when
\* the key is none.
GetReturn(t) ==
    /\ OutsideIo(t) /\ read[t] = "low"
    /\ IF IsCharacter(high[t][1])
       THEN /\ SyscallReturn(t)
            /\ read' = [read EXCEPT ![t] = "user"]
            /\ data' = [data EXCEPT ![t] = None]
            /\ UNCHANGED io
       ELSE /\ CallGet(t)
            /\ read' = [read EXCEPT ![t] = "high"]
            /\ UNCHANGED threadVars
    /\ high' = [high EXCEPT ![t] = None]
    /\ UNCHANGED <<buff, head, tail, producer, consumer, keyVars>>

KeyboardStep(t) ==
    /\ UNCHANGED keyboardVars
    /\ IoStep(t)

ReaderStep(t) == GetLow(t) \/ GetReturn(t)

KeyboardNext ==
    \/ \E t \in Threads : KeyboardStep(t) \/ HandlerPut(t) \/ HandlerReturn(t)
    \/ \E t \in KeyReaders : GetHigh(t) \/ ReaderStep(t)
    \/ \E k \in Keys : Strike(k)
    \/ keyboard_interrupt
    \/ (IdleLoop \/ Timer) /\ UNCHANGED <<ioVars, keyboardVars>>

KeyboardSpec == KeyboardInit /\ [][KeyboardNext]_keyboardAllVars

\* As in Thread; a handler and a system call go on once they have the processor.
KeyboardFairness ==
    /\ WF_keyboardAllVars(IdleLoop /\ UNCHANGED <<ioVars, keyboardVars>>)
    /\ SF_keyboardAllVars(Timer /\ UNCHANGED <<ioVars, keyboardVars>>)
    /\ \A t \in Threads :
         WF_keyboardAllVars(KeyboardStep(t) \/ HandlerPut(t) \/ HandlerReturn(t))
    /\ \A t \in KeyReaders : WF_keyboardAllVars(ReaderStep(t))

KeyboardFairSpec == KeyboardSpec /\ KeyboardFairness

\* Moreover every reader keeps asking for keys.
KeyboardReadingSpec ==
    KeyboardFairSpec /\ \A t \in KeyReaders : SF_keyboardAllVars(GetHigh(t))

-----------------------------------------------------------------------------

KeyboardTypeOK ==
    /\ TypeOK /\ IoTypeOK
    /\ kbd \in [flag: BOOLEAN, shift: BOOLEAN, caps: BOOLEAN, ctrl: BOOLEAN]
    /\ pressed \subseteq Keys
    /\ handler \in [Threads -> Seq(Bytes)]
    /\ back \in [Threads -> {"own", "loop", None}]
    /\ read \in [KeyReaders -> {"user", "high", "low"}]
    /\ high \in [KeyReaders -> Bytes \cup {None}]

\* Whenever an interrupt can come, the queue holds whole keys, the high byte of
\* each before its low one, whatever was dropped at a full queue; and the bytes
\* a reader puts together are the two of one key, however often it slept between
\* them.  True of a ring of odd length, where the room for keys comes out even;
\* in one of even length, such as KeyboardIOQueue itself, as long as no key
\* meets the last byte of room: HandlerReturns is about what happens then.
KeysWhole ==
    /\ InterruptsOn =>
         /\ ioQueueLen % 2 = 0
         /\ \A i \in 1 .. ioQueueLen : i % 2 = 1 =>
              Contents[i][2] = "high" /\ Contents[i + 1] = <<Contents[i][1], "low">>
    /\ \A t \in KeyReaders : read[t] = "low" /\ io[t] = "none" =>
         /\ high[t][2] = "high" /\ data[t][2] = "low"
         /\ high[t][1] = data[t][1]

\* Once all scan codes have arrived, KeyBoardShift and KeyBoardCtrl hold for
\* pressed what is pressed, whatever the prefixes, the shifts that are only
\* pretended and the keys dropped in between.  Of Ctrl the left key counts; with
\* two Shift keys either release ends it, so that one may still be down.
ModifiersHeld ==
    sent = << >> =>
        /\ kbd.shift => pressed \cap Shifts # {}
        /\ Shifts \subseteq Keys \/ (pressed \cap Shifts # {} => kbd.shift)
        /\ kbd.ctrl = ("ctrl" \in pressed)
        /\ ~kbd.flag

\* A reader that sleeps for a key is awake again once there is one, and reads.
KeyIsRead ==
    \A t \in KeyReaders :
        (io[t] = "getslot" /\ ~ioQueueEmpty) ~> read[t] = "low"

\* Both bytes of a key get into the queue, and the interrupted thread goes on,
\* as long as the readers keep reading.
HandlerReturns == \A t \in Threads : InHandler(t) ~> ~InHandler(t)
=============================================================================
