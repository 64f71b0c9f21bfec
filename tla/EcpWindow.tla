----------------------------- MODULE EcpWindow ------------------------------
(***************************************************************************)
(* The window of nonces of an open connection (ecp_unpack in core.c): the  *)
(* greatest nonce so far and which of the Width nonces up to it are still  *)
(* missing, the clear bits of nonce_map.  Nonces are 64 bits wide and      *)
(* start at random, here they are integers that do not wrap.               *)
(***************************************************************************)
EXTENDS Integers

CONSTANTS
    Width,   \* ECP_SIZE_ACKB
    MaxFwd   \* ECP_MAX_SEQ_FWD

ASSUME WindowAssumption == Width \in Nat \ {0} /\ MaxFwd \in Nat /\ Width < MaxFwd

\* nonce_map = ECP_ACK_FULL: whatever came before the first packet is refused.
Opened(n) == [top |-> n, missing |-> {}]

Accepts(win, n) ==
    IF n <= win.top
    THEN win.top - n < Width /\ n \in win.missing
    ELSE n - win.top < MaxFwd

\* A nonce ahead moves the window; a late one is let in and leaves its bit clear.
After(win, n) ==
    IF n <= win.top THEN win
    ELSE [top |-> n,
          missing |-> {m \in win.missing \union (win.top + 1 .. n - 1) : n - m < Width}]
=============================================================================
