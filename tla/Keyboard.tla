------------------------------- MODULE Keyboard -------------------------------
(***************************************************************************)
(* Console input of the NEMU platform (platform/nemu/platform.c): every    *)
(* timer interrupt empties the keyboard's queue of scan codes, keeping     *)
(* track of the modifier keys, and gives the characters to consoleintr().  *)
(* The user and the keyboard go on while the handler runs.  Terminal joins *)
(* it to the console.                                                      *)
(***************************************************************************)
EXTENDS Integers, Sequences

CONSTANTS
  Alpha, Symbols, Named,  \* keys: letters, digits and signs, named ones (return)
  Silent,                 \* keys without a character (F1)
  Lower, Upper, Control,  \* the characters of a key
  MaxQueue                \* bound: scan codes that wait

\* There are two keys for shift, and two for ctrl.
ShiftKeys == {"LSHIFT", "RSHIFT"}
CtrlKeys == {"LCTRL", "RCTRL"}
Modifiers == ShiftKeys \cup CtrlKeys \cup {"CAPSLOCK"}
KeyCodes == Alpha \cup Symbols \cup Named \cup Silent \cup Modifiers

VARIABLES
  held, capsOn,    \* the modifier keys down on the keyboard, and its caps lock
  lapsed,          \* keys held whose twin was lifted after the last press of the two
  queue,           \* scan codes: a key, and whether it went down
  shift, ctrl, caps,     \* nemu_shift_down, nemu_ctrl_down, nemu_caps_lock
  handling,        \* the CPU is in platform_nemu_keyboard_intr()
  want             \* what the user typed that has not arrived yet

modVars == <<shift, ctrl, caps>>
kbdVars == <<held, capsOn, lapsed, queue, shift, ctrl, caps, handling, want>>

NoKey == "none"

KeyboardInit ==
  /\ held = {} /\ capsOn = FALSE /\ lapsed = {} /\ queue = <<>>
  /\ shift = FALSE /\ ctrl = FALSE /\ caps = FALSE
  /\ handling = FALSE /\ want = <<>>

-----------------------------------------------------------------------------
(* The keyboard *)

\* Whether shift, or ctrl, is in force: one of its keys is down, and neither was
\* lifted since the last press.
Twins(key) == {keys \in {ShiftKeys, CtrlKeys} : key \in keys}
InForce(keys) == keys \cap held # {} /\ keys \cap lapsed = {}

\* What the user gets by pressing key while these modifiers are in force.
Meant(key) ==
  CASE key \in Alpha /\ InForce(CtrlKeys) -> Control[key]
    [] key \in Alpha /\ ~InForce(CtrlKeys) ->
         IF InForce(ShiftKeys) = capsOn THEN Lower[key] ELSE Upper[key]
    [] key \in Symbols -> IF InForce(ShiftKeys) THEN Upper[key] ELSE Lower[key]
    [] key \in Named -> Lower[key]
    [] OTHER -> NoKey

\* A key that is not a modifier may go down and up at any time.
press(key) ==
  /\ key \notin held /\ Len(queue) < MaxQueue
  /\ held' = held \cup ({key} \cap Modifiers)
  /\ lapsed' = lapsed \ UNION Twins(key)
  /\ capsOn' = (capsOn # (key = "CAPSLOCK"))
  /\ queue' = Append(queue, <<key, TRUE>>)
  /\ want' = IF Meant(key) = NoKey THEN want ELSE Append(want, Meant(key))
  /\ UNCHANGED <<modVars, handling>>

lift(key) ==
  /\ key \in held \/ key \notin Modifiers
  /\ Len(queue) < MaxQueue
  /\ held' = held \ {key}
  /\ lapsed' = (lapsed \cup (held \cap UNION Twins(key))) \ {key}
  /\ queue' = Append(queue, <<key, FALSE>>)
  /\ UNCHANGED <<capsOn, modVars, handling, want>>

-----------------------------------------------------------------------------
(* platform/nemu/platform.c *)

\* A timer interrupt: platform_handle_irq() acknowledges it, then polls.
handle_irq ==
  /\ ~handling /\ handling' = TRUE
  /\ UNCHANGED <<held, capsOn, lapsed, queue, modVars, want>>

\* The modifiers that platform_nemu_keyboard_event() keeps, as a record.
Mods == [shift |-> shift, ctrl |-> ctrl, caps |-> caps]

\* Mutation: caps lock does not reverse shift.
key_letter_caps(m, key) ==
  IF m.ctrl THEN Control[key] ELSE IF m.shift \/ m.caps THEN Upper[key] ELSE Lower[key]

\* The character of a key that goes down.
key_letter(m, key) ==
  IF m.ctrl THEN Control[key] ELSE IF m.shift # m.caps THEN Upper[key] ELSE Lower[key]

key_char(m, key) == IF m.shift THEN Upper[key] ELSE Lower[key]

\* platform_nemu_keyboard_event(): the modifiers after a scan code ...
Modifier(m, key, down) ==
  [shift |-> IF key \in ShiftKeys THEN down ELSE m.shift,
   ctrl |-> IF key \in CtrlKeys THEN down ELSE m.ctrl,
   caps |-> m.caps # (key = "CAPSLOCK" /\ down)]

\* ... and its character.
keyboard_event(m, key, down) ==
  CASE ~down -> NoKey
    [] down /\ key \in Alpha -> key_letter(m, key)
    [] down /\ key \in Named -> Lower[key]
    [] down /\ key \in Symbols -> key_char(m, key)
    [] OTHER -> NoKey

\* A turn of the loops in uart_getc() and keyboard_intr(); c goes to
\* consoleintr() unless it is NoKey.
nemu_uart_getc(c) ==
  LET key == Head(queue)[1]
      down == Head(queue)[2]
      m == Modifier(Mods, key, down)
  IN /\ handling /\ queue # <<>>
     /\ c = keyboard_event(Mods, key, down)
     /\ queue' = Tail(queue)
     /\ shift' = m.shift /\ ctrl' = m.ctrl /\ caps' = m.caps
     /\ want' = IF c = NoKey \/ want = <<>> THEN want ELSE Tail(want)
     /\ UNCHANGED <<held, capsOn, lapsed, handling>>

\* No key is waiting: the handler returns.
keyboard_intr_done ==
  /\ handling /\ queue = <<>>
  /\ handling' = FALSE
  /\ UNCHANGED <<held, capsOn, lapsed, queue, modVars, want>>

-----------------------------------------------------------------------------
(* Properties *)

\* What the handler will make of the first k scan codes in the queue.
Outcome[k \in 0 .. MaxQueue] ==
  IF k = 0 THEN [mods |-> Mods, text |-> <<>>]
  ELSE LET o == Outcome[k - 1]
           key == queue[k][1]
           down == queue[k][2]
           c == keyboard_event(o.mods, key, down)
       IN [mods |-> Modifier(o.mods, key, down),
           text |-> IF c = NoKey THEN o.text ELSE Append(o.text, c)]

\* What consoleintr() will get for the scan codes that wait is what the modifiers
\* in force gave when the keys were pressed, although the handler applies them long
\* after; and once it is done, shift and ctrl are on only while one of their keys is
\* down, and always then, unless its twin was lifted first.
TextRight ==
  LET o == Outcome[Len(queue)]
  IN /\ o.text = want
     /\ o.mods = [shift |-> InForce(ShiftKeys), ctrl |-> InForce(CtrlKeys), caps |-> capsOn]
==============================================================================
