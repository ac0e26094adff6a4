------------------------------ MODULE Keyboard ------------------------------
(***************************************************************************)
(* components/scrcpy/input.ts: the keys of the page injected in the device *)
(* by messages of scrcpy, which name the modifiers held, or as the reports *)
(* of a USB keyboard (AOA).  Codes without a key on the device are ignored *)
(* and left out.                                                           *)
(***************************************************************************)
EXTENDS FiniteSets

CONSTANTS Letters, Modifiers   \* the keys of the page that the model looks at
Locks == {"CapsLock", "NumLock"}
\* The sets of input.ts: a lock is no modifier.
ASSUME KeyboardAssumption == Modifiers \cap Locks = {}
Keys == Letters \cup Modifiers \cup Locks

VARIABLES
    keyboard,   \* STATE.keyboard: its kind, the keys and modifiers it holds, the locks on
    device,     \* keys down on the device; modifiers and locks this keyboard told last
    left        \* history: keys that keyboards left down which the page has no more

keyboardVars == <<keyboard, device, left>>

NoKeyboard == [kind |-> "none", keys |-> {}, modifiers |-> {}, locks |-> {}]
NewKeyboard(kind) ==
    [NoKeyboard EXCEPT !.kind = kind, !.locks = IF kind = "scrcpy" THEN {"NumLock"} ELSE {}]
KeyboardTypeOK ==
    /\ keyboard \in [kind : {"none", "scrcpy", "aoa"}, keys : SUBSET Keys,
                     modifiers : SUBSET Modifiers, locks : SUBSET Locks]
    /\ device \in [keys : SUBSET Keys, meta : SUBSET Keys]
    /\ left \subseteq Keys

KeyboardInit ==
    /\ keyboard = NoKeyboard
    /\ device = [keys |-> {}, meta |-> {}]
    /\ left = {}

MetaState(k) == k.modifiers \cup k.locks

\* The keys that go up on the device: a report of the USB keyboard says
\* nothing of a key that another keyboard left down.
GoingUp(keys) == IF keyboard.kind = "aoa" THEN keys \ left ELSE keys

\* The new keyboard has told nothing.  One that it replaces (a USB keyboard
\* that was registered after its session ended) is not disposed of.
Attached(kind) ==
    /\ keyboard' = NewKeyboard(kind)
    /\ device' = [device EXCEPT !.meta = {}]
    /\ left' = left \cup keyboard.keys

\* dispose(): the USB keyboard is unregistered, and the device lets go of its
\* keys; that of scrcpy does nothing.
Detached ==
    /\ keyboard' = NoKeyboard
    /\ IF keyboard.kind = "aoa"
       THEN /\ device' = [keys |-> device.keys \ GoingUp(keyboard.keys), meta |-> {}]
            /\ UNCHANGED left
       ELSE /\ device' = [device EXCEPT !.meta = {}]
            /\ left' = left \cup keyboard.keys

\* A lock changes when its key goes down.  The state of the USB keyboard is
\* one report, its locks are the device's.
Down(key) ==
    /\ keyboard.kind # "none"
    /\ keyboard' =
        [keyboard EXCEPT
            !.keys = @ \cup {key},
            !.modifiers = @ \cup ({key} \cap Modifiers),
            !.locks = IF keyboard.kind = "scrcpy" /\ key \in Locks
                      THEN (@ \ {key}) \cup ({key} \ @) ELSE @]
    /\ device' = [keys |-> device.keys \cup {key}, meta |-> MetaState(keyboard')]
    /\ UNCHANGED left

Released(k, key) == [k EXCEPT !.keys = @ \ {key}, !.modifiers = @ \ {key}]

Up(key) ==
    /\ keyboard.kind # "none"
    /\ keyboard' = Released(keyboard, key)
    /\ device' = [keys |-> device.keys \ GoingUp({key}), meta |-> MetaState(keyboard')]
    /\ left' = left \ GoingUp({key})

\* The modifiers are forgotten first; then every key that is held goes up,
\* and nothing is told when none is.
Reset ==
    /\ keyboard.kind # "none"
    /\ keyboard' = [keyboard EXCEPT !.keys = {}, !.modifiers = {}]
    /\ IF keyboard.kind = "aoa" \/ keyboard.keys # {}
       THEN /\ device' = [keys |-> device.keys \ GoingUp(keyboard.keys),
                          meta |-> MetaState(keyboard')]
            /\ left' = left \ GoingUp(keyboard.keys)
       ELSE UNCHANGED <<device, left>>

---------------------------------------------------------------------------
(* Properties                                                              *)

\* A key that is down on the device is one that the page holds, or that a
\* keyboard the page has no more left down: dispose() of a session tells the
\* device nothing (input.ts:166, state.tsx:588).  The modifiers this keyboard
\* told last are those the page holds.
KeysMatch ==
    /\ device.keys = keyboard.keys \cup left
    /\ keyboard.kind # "none" => device.meta \cap Modifiers = keyboard.keys \cap Modifiers
=============================================================================
