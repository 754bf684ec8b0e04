------------------------------ MODULE Console ------------------------------
(***************************************************************************)
(* From the USB controller to the command line: the interrupt pipes of     *)
(* usb/uhci.cpp, the reports of usb/hid.cpp, the characters of keyboard.cpp *)
(* and the line editor with its history of terminal.cpp.                   *)
(*                                                                         *)
(* The controller and the devices run beside the interrupt's handler: a    *)
(* step of it is one access to a register or to a transfer descriptor that *)
(* they share.  on_keyboard, with terminal_on_key for each character, runs *)
(* between two such accesses.                                              *)
(*                                                                         *)
(* The keyboard tells a state, not changes: the keys that are down when it *)
(* is asked, if they are not those that it told last (uhci_hid_set_idle).  *)
(* The controller is taken to serve every active descriptor of the list,   *)
(* as the handler expects.  No command is called at this commit            *)
(* (kernel.cpp:273), and no key gives the characters 17 and 18 that recall *)
(* the history (keyboard.cpp:4-39); the screen is left out, and so is      *)
(* where the tablet points.                                                *)
(***************************************************************************)
EXTENDS Naturals, Sequences, FiniteSets, SequencesExt

CONSTANTS
  Config,      \* the descriptors of the device's configuration, in their order
  TdCount,     \* UHCI_TD_COUNT
  Letters,     \* the keys of letters
  Caps,        \* Caps Lock, ...
  Return,      \* ... Enter ...
  Back,        \* ... and Backspace
  Shifts,      \* whether Shift may be down: a set of Booleans
  Slots,       \* the keys that a report has room for, 6
  ReportSize,  \* the bytes of a keyboard's report, 8
  MaxPacket,   \* max_packet of the keyboard's endpoint
  BufSize,     \* BUF_SIZE
  InputMax,    \* INPUT_MAX
  HistMax      \* HIST_MAX

ASSUME ConsoleAssumption ==
  /\ Shifts \subseteq BOOLEAN /\ IsFiniteSet(Letters)
  /\ {Slots, ReportSize, MaxPacket, BufSize, InputMax, HistMax} \subseteq Nat \ {0}
  /\ HistMax > 1
  /\ "left" \notin Letters \cup {Caps, Return, Back}   \* that is the mouse's button

VARIABLES
  td,       \* each pipe's transfer descriptor: "active", or how the transfer ended
  report,   \* the keyboard pipe's buffer, ...
  touch,    \* ... and of the tablet's, whether the left button is down
  sts,      \* USBSTS
  handler,  \* uhci_irq_handler: where it is, what it has read, the pipe it looks at
  mouse,    \* s_prev_l
  prev,     \* s_prev_keys
  caps,
  ring,     \* how many characters buf holds; nobody takes any
  editor,   \* input_buf, input_pos, history, hist_count
  due       \* history: presses that a device has told and the handler has not taken yet

tabletVars   == <<touch, mouse>>
keyboardVars == <<report, prev, caps, ring, editor>>
vars         == <<td, sts, handler, tabletVars, keyboardVars, due>>
----------------------------------------------------------------------------
\* parse_config: of each HID interface the protocol, once it shows an interrupt endpoint.
MaxIfaces == 4

Parsed(p, d) ==
  IF Len(p.found) = MaxIfaces THEN p
  ELSE IF d.type = "interface" THEN [p EXCEPT !.hid = d.hid, !.protocol = d.protocol]
  ELSE IF d.type = "endpoint" /\ d.interrupt /\ p.hid
  THEN [p EXCEPT !.hid = FALSE, !.found = Append(@, p.protocol)]
  ELSE p

Interfaces == FoldLeft(Parsed, [hid |-> FALSE, protocol |-> 0, found |-> <<>>], Config).found

\* uhci_register_interrupt: the descriptors of control transfers are spared.
Registered(pipes, protocol) ==
  IF Len(pipes) >= TdCount - 3 THEN pipes
  ELSE Append(pipes, IF protocol = 1 THEN "keyboard" ELSE "tablet")

\* s_pipes.
Pipes == FoldLeft(Registered, <<>>, Interfaces)

ASSUME OneOfEach == Pipes \in {<<"tablet", "keyboard">>, <<"keyboard", "tablet">>}

Keyboard == CHOOSE i \in DOMAIN Pipes : Pipes[i] = "keyboard"
Tablet   == CHOOSE i \in DOMAIN Pipes : Pipes[i] = "tablet"

Keys == Letters \cup {Caps, Return, Back}
Left == "left"

\* Rollover: more keys are down than the report has room for, all slots hold 0x01.
Rollover == "rollover"

Report(keys, shift) == [keys |-> IF Cardinality(keys) <= Slots THEN keys ELSE {Rollover},
                        shift |-> shift]
Reports == {Report(keys, shift) : keys \in SUBSET Keys, shift \in Shifts}

\* What the token of a pipe's descriptor asks for: MAXLEN(max_packet - 1) takes off a second one.
Received == IF ReportSize <= MaxPacket - 1 THEN ReportSize ELSE MaxPacket - 1

Idle == [pc |-> "idle", seen |-> {}, at |-> 0]
----------------------------------------------------------------------------
\* The controller ends the transfer of pipe i.
Ends(i, how, bits) ==
  /\ td[i] = "active"
  /\ td' = [td EXCEPT ![i] = how]
  /\ sts' = sts \cup bits
  /\ UNCHANGED handler

\* It ends well when the device has something to tell, ...
Tells(r) ==
  /\ Ends(Keyboard, "done", {"int"}) /\ r # report
  /\ report' = r
  /\ due' = [k \in DOMAIN due |-> IF k \in r.keys \ report.keys THEN due[k] + 1 ELSE due[k]]
  /\ UNCHANGED <<tabletVars, prev, caps, ring, editor>>

Moves(left) ==
  /\ Ends(Tablet, "done", {"int"})
  /\ touch' = left
  /\ due' = [due EXCEPT ![Left] = IF left /\ ~touch THEN @ + 1 ELSE @]
  /\ UNCHANGED <<mouse, keyboardVars>>

\* ... or with an error, which only the tablet meets here.
Fails ==
  /\ Ends(Tablet, "stalled", {"int", "error"})
  /\ UNCHANGED <<tabletVars, keyboardVars, due>>
----------------------------------------------------------------------------
\* terminal_on_key, by what the character is.
Inserted(e, c) ==
  IF Len(e.line) < InputMax - 1
  THEN [e EXCEPT !.line = InsertAt(@, e.pos + 1, c), !.pos = @ + 1]
  ELSE e

Erased(e) ==
  IF e.pos > 0
  THEN [e EXCEPT !.line = RemoveAt(@, e.pos), !.pos = @ - 1]
  ELSE e

\* Faulty variants, here and below, stand before the definition they break.
StoredUnshifted(h, n, line) == [h EXCEPT ![IF n < HistMax THEN n + 1 ELSE HistMax] = line]

\* The history h of n lines takes another.  What it is moved down for is that it is full once
\* the line is in it, so that the first line is gone and a slot stays empty.
Stored(h, n, line) ==
  LET i == IF n < HistMax THEN n + 1 ELSE HistMax
  IN [j \in 1..HistMax |-> IF j = i THEN line
                           ELSE IF i = HistMax /\ j < HistMax THEN h[j + 1] ELSE h[j]]

\* Enter, and start_input.  entered, no part of the code, has the last lines for the properties.
Entered(e) ==
  LET kept == IF e.line = <<>> THEN e
              ELSE [e EXCEPT !.history = Stored(@, e.count, e.line),
                             !.count = IF @ < HistMax THEN @ + 1 ELSE @,
                             !.entered = LET all == Append(@, e.line)
                                         IN IF Len(all) > HistMax THEN Tail(all) ELSE all]
  IN [kept EXCEPT !.line = <<>>, !.pos = 0]

OnKey(e, k, upper) ==
  IF k = Return THEN Entered(e)
  ELSE IF k = Back THEN Erased(e)
  ELSE Inserted(e, [key |-> k, upper |-> upper])
----------------------------------------------------------------------------
PressedStale(keys) == keys \cap Keys

\* The keys of a report that were not down in the one before.
Pressed(keys) == (keys \ prev) \cap Keys

\* buf_push.
Pushed(n) == IF n + 1 < BufSize THEN n + 1 ELSE n

\* What a key's character does: to the ring, and through user_cb to the line.
Typed(t, k, upper) == [ring |-> Pushed(t.ring), editor |-> OnKey(t.editor, k, upper)]

\* on_keyboard: Caps Lock first, then the other keys in the order of their slots.
OnKeyboard(r) ==
  LET new  == Pressed(r.keys)
      lock == IF Caps \in new THEN ~caps ELSE caps
  IN \E order \in SetToSeqs(new \ {Caps}) :
       LET after == FoldLeft(LAMBDA t, k : Typed(t, k, r.shift \/ lock),
                             [ring |-> ring, editor |-> editor], order)
       IN /\ caps' = lock
          /\ ring' = after.ring /\ editor' = after.editor
          /\ prev' = r.keys
          /\ due' = [k \in DOMAIN due |-> IF k \in new THEN due[k] - 1 ELSE due[k]]

\* on_tablet: what is not the button's state before is a click, which nobody looks up later.
OnTablet(left) ==
  /\ mouse' = left
  /\ due' = [due EXCEPT ![Left] = IF left /\ ~mouse THEN @ - 1 ELSE @]
----------------------------------------------------------------------------
\* uhci_irq_handler reads the status ...
ReadStatus ==
  /\ handler = Idle /\ sts # {}
  /\ handler' = [pc |-> "clear", seen |-> sts, at |-> 0]
  /\ UNCHANGED <<td, sts, tabletVars, keyboardVars, due>>

\* ... writes it back, which clears those bits, ...
ClearStatus ==
  /\ handler.pc = "clear"
  /\ sts' = sts \ handler.seen
  /\ handler' = IF "int" \in handler.seen THEN [handler EXCEPT !.pc = "scan", !.at = 1] ELSE Idle
  /\ UNCHANGED <<td, tabletVars, keyboardVars, due>>

Rearmed(i) == [td EXCEPT ![i] = "active"]

\* ... and looks at each pipe: what has ended is handed on, unless it failed, and begun anew.
Scan ==
  LET i == handler.at
  IN /\ handler.pc = "scan"
     /\ handler' = IF i < Len(Pipes) THEN [handler EXCEPT !.at = i + 1] ELSE Idle
     /\ td' = IF td[i] = "active" THEN td ELSE Rearmed(i)
     /\ \/ /\ td[i] = "done" /\ i = Keyboard /\ Received >= ReportSize
           /\ OnKeyboard(report) /\ UNCHANGED mouse
        \/ /\ td[i] = "done" /\ i = Tablet
           /\ OnTablet(touch) /\ UNCHANGED <<prev, caps, ring, editor>>
        \/ /\ td[i] = "done" => i = Keyboard /\ Received < ReportSize
           /\ UNCHANGED <<mouse, prev, caps, ring, editor, due>>
     /\ UNCHANGED <<sts, report, touch>>
----------------------------------------------------------------------------
Init ==
  /\ td = [i \in DOMAIN Pipes |-> "active"]
  /\ report = [keys |-> {}, shift |-> FALSE] /\ touch = FALSE
  /\ sts = {}
  /\ handler = Idle
  /\ mouse = FALSE
  /\ prev = {}
  /\ caps = FALSE
  /\ ring = 0
  /\ editor = [line |-> <<>>, pos |-> 0, history |-> [i \in 1..HistMax |-> <<>>], count |-> 0,
               entered |-> <<>>]
  /\ due = [k \in Keys \cup {Left} |-> 0]

Next ==
  \/ \E r \in Reports : Tells(r)
  \/ \E left \in BOOLEAN : Moves(left)
  \/ Fails
  \/ ReadStatus \/ ClearStatus \/ Scan

Spec == Init /\ [][Next]_vars
----------------------------------------------------------------------------
TypeOK ==
  /\ td \in [DOMAIN Pipes -> {"active", "done", "stalled"}]
  /\ report.keys \subseteq Keys \cup {Rollover} /\ prev \subseteq Keys \cup {Rollover}
  /\ sts \subseteq {"int", "error"} /\ handler.seen \subseteq {"int", "error"}
  /\ {caps, mouse, touch} \subseteq BOOLEAN /\ ring \in 0..BufSize - 1

\* The handler is still to look at pipe i: it will be called, or has not come so far.
Awaited(i) ==
  \/ "int" \in sts
  \/ "int" \in handler.seen /\ (handler.pc = "scan" => i >= handler.at)

\* No transfer that ends while the handler runs is left lying: it is looked at in this run of
\* the handler or raises another.  And each press that a device tells is typed, toggles Caps
\* Lock or clicks once, however reports and interrupts fall together, where a rollover counts
\* as the release of all keys: those that are still down after it are typed again (code:
\* uhci.cpp:328-354, keyboard.cpp:68-107, mouse.cpp:29-45).
TypedOnce ==
  /\ TypeOK
  /\ \A i \in DOMAIN Pipes : td[i] # "active" => Awaited(i)
  /\ td[Keyboard] = "active" => \A k \in Keys : due[k] = 0
  /\ td[Tablet] # "done" => due[Left] = 0

\* The history holds the last lines that were entered, in their order and all of them, but for
\* one slot, which is empty from when the history first fills up until HIST_MAX - 1 more have
\* come, and costs it the oldest line; and the line never outgrows its buffer (code:
\* terminal.cpp:271-297).
RecentLines ==
  LET lines == editor.entered
  IN /\ editor.count = Len(lines)
     /\ \E gap \in 0..HistMax - 1 :
          /\ gap # 0 => Len(lines) = HistMax
          /\ \A j \in 1..Len(lines) :
               editor.history[j] = IF j < gap THEN lines[j + 1]
                                   ELSE IF j = gap THEN <<>> ELSE lines[j]
     /\ Len(editor.line) < InputMax /\ editor.pos = Len(editor.line)
=============================================================================
