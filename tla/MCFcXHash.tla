----------------------------- MODULE MCFcXHash -----------------------------
EXTENDS FcXHash

(* small sizes, each one reached; the last one stays however loaded *)
SmallPrimes == <<2, 3, 5>>
=============================================================================
