--------------------------- MODULE MCBrowserBus ---------------------------
(* Model-checking instances of BrowserBus. *)
EXTENDS BrowserBus

CONSTANTS r1, r2, r3
============================================================================
