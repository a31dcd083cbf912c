------------------------------ MODULE Keyboard ------------------------------
(***************************************************************************)
(* The PS/2 keyboard driver (drivers/input/ps2_keyboard.c) and the TTY     *)
(* service that polls it (services/tty_service.c).                         *)
(*                                                                         *)
(* The typist presses and releases keys; the keyboard sends scancodes into *)
(* the port, in order and without loss.  The driver reads one byte in a    *)
(* poll, and only when its own queue is empty.  Tests put keys into that   *)
(* queue directly.  A key is a letter, a digit, an arrow (extended), one   *)
(* of the shifts, caps lock, or one the driver has no entry for; an arrow  *)
(* may come with an extended shift code around it, which is not a shift.   *)
(* Timestamps are left out: nothing reads them.                            *)
(***************************************************************************)
EXTENDS Integers, Sequences, SequencesExt

CONSTANTS QueueSize,   \* KEY_QUEUE_SIZE
          MaxTyped,    \* bound: keys that are pressed
          MaxKeys,     \* bound: keys pressed or put in by tests
          MaxWaiting   \* bound: bytes in the port

VARIABLES queue, queue_head, queue_tail, queue_count,
          left_shift_down, right_shift_down, caps_lock_on,
          extended_scancode_pending,
          port,        \* bytes the keyboard has sent
          held,        \* keys that are down
          caps_light,  \* caps lock as the typist counts it
          typed,       \* history: what the presses so far mean
          delivered,   \* history: typed presses returned by polls
          injected     \* history: number of keys tests put in the queue

driverVars == <<queue, queue_head, queue_tail, queue_count, left_shift_down,
                right_shift_down, caps_lock_on, extended_scancode_pending>>
typistVars == <<held, caps_light, typed>>
kbVars == <<driverVars, typistVars, port, delivered, injected>>

Shifts == {"lshift", "rshift"}
Keys == Shifts \cup {"letter", "digit", "arrow", "caps", "unmapped"}
NoEvent == [keycode |-> "none", down |-> FALSE, ascii |-> "none",
            shift |-> FALSE, caps |-> FALSE]

\* A scancode: the prefix byte, or a key with its release bit.  "fake" is a
\* shift code behind a prefix.
E0 == [code |-> "e0", released |-> FALSE]
Byte(code, released) == [code |-> code, released |-> released]

scdk_keyboard_init ==
    /\ queue = [i \in 0 .. QueueSize - 1 |-> NoEvent]
    /\ queue_head = 0 /\ queue_tail = 0 /\ queue_count = 0
    /\ left_shift_down = FALSE /\ right_shift_down = FALSE /\ caps_lock_on = FALSE
    /\ extended_scancode_pending = FALSE

KbInit ==
    /\ scdk_keyboard_init
    /\ port = <<>> /\ held = {} /\ caps_light = FALSE
    /\ typed = <<>> /\ delivered = <<>> /\ injected = 0

-----------------------------------------------------------------------------
(* The key tables and what a key means                                     *)

\* Mutant: the entry for caps lock is missing.
scancode_set1_no_caps(code) == code \in {"letter", "digit"}

\* Does a table have an entry for the code?
scancode_set1(code) == code \in {"letter", "digit", "caps"}
extended_scancode_set1(code) == code = "arrow"

is_alpha_entry(code) == code = "letter"

\* Mutant: caps lock shifts every key.
ascii_for_entry_caps_all(code, shift, caps) ==
    IF code \notin {"letter", "digit"} THEN "none"
    ELSE IF shift # caps THEN "shifted" ELSE "normal"

\* Which of its characters a key gives; "none" for a key without.
ascii_for_entry(code, shift, caps) ==
    IF code \notin {"letter", "digit"} THEN "none"
    ELSE IF is_alpha_entry(code)
    THEN IF shift # caps THEN "shifted" ELSE "normal"
    ELSE IF shift THEN "shifted" ELSE "normal"

-----------------------------------------------------------------------------
(* The typist and the keyboard                                             *)

Send(bytes) == Len(port) + Len(bytes) <= MaxWaiting /\ port' = port \o bytes

\* What the keyboard sends for a key.
Scancodes(key, released) ==
    IF key = "arrow" THEN {<<E0, Byte("arrow", released)>>,
                           <<E0, Byte("lshift", ~released), E0, Byte("arrow", released)>>}
    ELSE {<<Byte(key, released)>>}

Press(key) ==
    /\ key \notin held /\ Len(typed) < MaxTyped /\ Len(typed) + injected < MaxKeys
    /\ \E bytes \in Scancodes(key, FALSE) : Send(bytes)
    /\ held' = held \cup {key}
    /\ caps_light' = IF key = "caps" THEN ~caps_light ELSE caps_light
    /\ typed' = IF key \in Shifts \cup {"unmapped"} THEN typed
                ELSE Append(typed, [key |-> key, shift |-> held \cap Shifts # {},
                                    caps |-> caps_light'])
    /\ UNCHANGED <<driverVars, delivered, injected>>

Release(key) ==
    /\ key \in held
    /\ \E bytes \in Scancodes(key, TRUE) : Send(bytes)
    /\ held' = held \ {key}
    /\ UNCHANGED <<driverVars, caps_light, typed, delivered, injected>>

-----------------------------------------------------------------------------
(* The driver                                                              *)

Event(key, down, shift, caps) ==
    [keycode |-> key, down |-> down, shift |-> shift,
     caps |-> caps, ascii |-> IF down THEN ascii_for_entry(key, shift, caps) ELSE "none"]

enqueue_event(event) ==
    /\ queue_count < QueueSize
    /\ queue' = [queue EXCEPT ![queue_tail] = event]
    /\ queue_tail' = (queue_tail + 1) % QueueSize
    /\ queue_count' = queue_count + 1

\* A poll gives the client an event.
Returned(e) ==
    delivered' = IF e.down /\ e.keycode # "injected" THEN Append(delivered, e) ELSE delivered

\* The slot of a returned event is dead: what it holds is not kept.
dequeue_event ==
    /\ queue_count # 0
    /\ Returned(queue[queue_head])
    /\ queue_head' = (queue_head + 1) % QueueSize
    /\ queue_count' = queue_count - 1
    /\ queue' = [queue EXCEPT ![queue_head] = NoEvent]

IsShift(code, key, extended) == ~extended /\ code = key

\* handle_scancode on a byte that gives an event, and the dequeue that
\* follows it: an event passes through the empty queue, and its slot is dead
\* again.
ScancodeGivesEvent(b) ==
    LET extended == extended_scancode_pending
        caps == IF b.code = "caps" /\ ~b.released THEN ~caps_lock_on ELSE caps_lock_on
        event == Event(b.code, ~b.released, left_shift_down \/ right_shift_down, caps)
    IN  /\ b # E0 /\ ~IsShift(b.code, "lshift", extended) /\ ~IsShift(b.code, "rshift", extended)
        /\ IF extended THEN extended_scancode_set1(b.code) ELSE scancode_set1(b.code)
        /\ caps_lock_on' = caps /\ extended_scancode_pending' = FALSE
        /\ queue_tail' = (queue_tail + 1) % QueueSize
        /\ queue_head' = (queue_head + 1) % QueueSize
        /\ Returned(event)
        /\ UNCHANGED <<queue, queue_count, left_shift_down, right_shift_down>>

\* handle_scancode on a byte that gives none.
ScancodeGivesNone(b) ==
    LET extended == extended_scancode_pending
        shift(key, was) == IF IsShift(b.code, key, extended) THEN ~b.released ELSE was
    IN  /\ \/ b = E0
           \/ IsShift(b.code, "lshift", extended) \/ IsShift(b.code, "rshift", extended)
           \/ ~(IF extended THEN extended_scancode_set1(b.code) ELSE scancode_set1(b.code))
        /\ extended_scancode_pending' = (b = E0)
        /\ left_shift_down' = IF b = E0 THEN left_shift_down ELSE shift("lshift", left_shift_down)
        /\ right_shift_down' = IF b = E0 THEN right_shift_down ELSE shift("rshift", right_shift_down)
        /\ UNCHANGED <<queue, queue_head, queue_tail, queue_count, caps_lock_on, delivered>>

\* A poll by the TTY service: the queue first, then one byte of the port.
PollQueue ==
    /\ dequeue_event
    /\ UNCHANGED <<queue_tail, left_shift_down, right_shift_down,
                   caps_lock_on, extended_scancode_pending, typistVars, port, injected>>

PollPort ==
    /\ queue_count = 0 /\ port # <<>>
    /\ ScancodeGivesEvent(Head(port)) \/ ScancodeGivesNone(Head(port))
    /\ port' = Tail(port)
    /\ UNCHANGED <<typistVars, injected>>

scdk_keyboard_poll == PollQueue \/ PollPort

scdk_keyboard_inject_test_key ==
    /\ Len(typed) + injected < MaxKeys /\ injected' = injected + 1
    /\ enqueue_event([Event("injected", TRUE, FALSE, FALSE) EXCEPT !.ascii = "normal"])
    /\ UNCHANGED <<queue_head, left_shift_down, right_shift_down, caps_lock_on,
                   extended_scancode_pending, typistVars, port, delivered>>

\* The queue is full: the key is gone.
InjectedKeyDropped ==
    /\ queue_count >= QueueSize
    /\ UNCHANGED kbVars

KbNext ==
    \/ \E key \in Keys : Press(key) \/ Release(key)
    \/ scdk_keyboard_poll
    \/ scdk_keyboard_inject_test_key \/ InjectedKeyDropped

KbSpec == KbInit /\ [][KbNext]_kbVars

-----------------------------------------------------------------------------
(* Properties                                                              *)

\* The types of the state; the indices and the count agree, and the slots
\* between them are those with an event, so no dead slot is ever read.
KbTypeOK ==
    /\ queue_head \in 0 .. QueueSize - 1 /\ queue_tail \in 0 .. QueueSize - 1
    /\ queue_count \in 0 .. QueueSize
    /\ queue_tail = (queue_head + queue_count) % QueueSize
    /\ {i \in DOMAIN queue : queue[i] # NoEvent} =
           {(queue_head + k) % QueueSize : k \in 0 .. queue_count - 1}
    /\ Len(port) <= MaxWaiting

\* The presses that polls have returned are those the typist made, in order
\* and none skipped, each with the character the shifts and caps lock gave it
\* at the moment of the press, however late it was polled and whatever keys
\* went up or down since.
PollsReturnWhatWasTyped ==
    /\ Len(delivered) <= Len(typed)
    /\ \A i \in DOMAIN delivered :
           /\ delivered[i].keycode = typed[i].key
           /\ delivered[i].shift = typed[i].shift /\ delivered[i].caps = typed[i].caps
           /\ delivered[i].ascii =
                  CASE typed[i].key = "letter" ->
                           IF typed[i].shift # typed[i].caps THEN "shifted" ELSE "normal"
                    [] typed[i].key = "digit" -> IF typed[i].shift THEN "shifted" ELSE "normal"
                    [] OTHER -> "none"

\* Once the port is empty the driver's shift flags are the keys that are
\* held: no order of presses and releases of two shifts and an extended key
\* leaves one stuck.
ShiftsFollowKeys ==
    port = <<>> => /\ left_shift_down = ("lshift" \in held)
                   /\ right_shift_down = ("rshift" \in held)
                   /\ caps_lock_on = caps_light

\* Every key that is pressed is returned by some poll.
PressedKeysArrive ==
    \A n \in 1 .. MaxTyped : (Len(typed) >= n) ~> (Len(delivered) >= n)

\* Polls return the typed characters, each once and in order, and the
\* driver's idea of the modifiers is the keyboard's.
KeysMeanWhatWasTyped == KbTypeOK /\ PollsReturnWhatWasTyped /\ ShiftsFollowKeys

=============================================================================
