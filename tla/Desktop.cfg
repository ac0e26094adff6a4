\* Two windows with at most two prompts each, two commands, and three folders:
\* a name alone and with two extensions.
SPECIFICATION DesktopSpec
CONSTANTS
    Windows = {w1, w2}
    MaxPrompts = 2
    Names = {n1}
    Extensions = {e1, e2}
    Commands = {c1, c2}
INVARIANTS
    DesktopTypeOK
    DesktopSound
CHECK_DEADLOCK FALSE
