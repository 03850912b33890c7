----------------------------- MODULE MCDoubles -----------------------------
(* Doubles with three significant bits, up to 28, for PowValues and        *)
(* RoundPow of HeaderChain.                                                *)
EXTENDS Integers

Ulp(n) == IF n < 8 THEN 1 ELSE IF n < 16 THEN 2 ELSE 4

MCPowValues == {n \in 0 .. 28 : n % Ulp(n) = 0}

(* To the nearest, of two to the one whose last bit is 0; the instances    *)
(* stay below 28.                                                          *)
MCRoundPow(n) ==
    LET u    == Ulp(n)
        low  == n - (n % u)
        down == 2 * (n % u) < u \/ (2 * (n % u) = u /\ low % (2 * u) = 0)
    IN  IF n > 28 THEN 28 ELSE IF down THEN low ELSE low + u

=============================================================================
