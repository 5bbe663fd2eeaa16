----------------------------- MODULE MCRxReplay -----------------------------
EXTENDS RxReplay

(* Seven frames of eight events: a tombstone, and deliveries that share a region. *)
Tape == <<1, 2, 0, 1, 3, 4, 2, 5>>

Config(elision, ss, bump, abandon) ==
    [elision |-> elision, ss |-> ss, bump |-> bump, abandon |-> abandon]

MCConfigs ==
    {Config(FALSE, FALSE, "none", a) : a \in BOOLEAN}
        \union {Config(TRUE, ss, "top", a) : ss \in BOOLEAN, a \in BOOLEAN}

=============================================================================
