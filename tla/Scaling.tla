------------------------------ MODULE Scaling ------------------------------
(***************************************************************************)
(* How draw_image_on_output() scales and crops an image.  A float has 24   *)
(* significant bits and rounds to the nearest, ties to even.  TLC's        *)
(* integers have room for the products of sizes below 128; what is proved  *)
(* is for sizes up to 4096, of which a scaled size is still exact as a     *)
(* float.                                                                  *)
(***************************************************************************)
EXTENDS Integers

Sizes == 1..4096

Bits24 == 16777216      \* 2^24
Exponents == 0..149     \* of the last bit of a float, negated

Powers[k \in Exponents] == IF k = 0 THEN 1 ELSE 2 * Powers[k - 1]

\* 2^k
Power(k) == Powers[k]

\* n / d rounded to an integer, ties to even.
Nearest(n, d) ==
    LET q == n \div d
        r == n % d
    IN  IF 2 * r > d \/ (2 * r = d /\ q % 2 = 1) THEN q + 1 ELSE q

\* (float)p / q as m / 2^k: k is the one that gives m all its bits.
Quotient(p, q) ==
    LET k == CHOOSE k \in Exponents : (p * Power(k)) \div q \in (Bits24 \div 2)..(Bits24 - 1)
    IN  [m |-> Nearest(p * Power(k), q), k |-> k]

\* fmax(): the larger has its point further to the right.
Larger(a, b) == IF a.k < b.k \/ (a.k = b.k /\ a.m >= b.m) THEN a ELSE b

\* The product of an int and a float, rounded to a float p / 2^k.
Product(n, f) ==
    LET p == n * f.m
        s == CHOOSE s \in Exponents : /\ p \div Power(s) < Bits24
                                      /\ s = 0 \/ p \div Power(s - 1) >= Bits24
        last == Power(s)
    IN  Nearest(p, last) * last

\* It is cut to a size_t, or rounded with round().
Times(n, f) == Product(n, f) \div Power(f.k)
Round(n, f) ==
    LET p == Product(n, f)
        one == Power(f.k)
    IN  IF 2 * (p % one) >= one THEN p \div one + 1 ELSE p \div one

-----------------------------------------------------------------------------
\* Mutant: the smaller scale is taken, so that all of the image would show.
Scaled_Within(i, o) ==
    LET x == Quotient(o.w, i.w)
        y == Quotient(o.h, i.h)
        scale == IF Larger(x, y) = x THEN y ELSE x
    IN  [w |-> Times(i.w, scale), h |-> Times(i.h, scale)]

\* IMAGE_MODE_CENTER: the image is scaled to cover the output.
Scaled(i, o) ==
    LET scale == Larger(Quotient(o.w, i.w), Quotient(o.h, i.h))
    IN  [w |-> Times(i.w, scale), h |-> Times(i.h, scale)]

\* left and top.  A scaled image of n that rounding has left one short of the
\* output's m makes them -1, which no size_t holds: the conversion is undefined,
\* gives 0 on some machines and the largest size_t on others.  The loops end
\* before they begin then, as they do for any offset beyond the end.
Wrapped == -1
Offsets(n, m) == IF n >= m THEN {(n - m) \div 2} ELSE {0, Wrapped}

\* What IMAGE_MODE_CENTER may do: the pixels of the scaled image that the loops
\* read, and how many the output gets.
Crop(r, o, left, top) ==
    IF Wrapped \in {left, top} THEN [size |-> r.w * r.h, first |-> 0, last |-> -1, written |-> 0]
    ELSE [size |-> r.w * r.h, first |-> top * r.w + left,
          last |-> (top + o.h - 1) * r.w + left + o.w - 1, written |-> o.w * o.h]

Center(i, o) ==
    LET r == Scaled(i, o)
    IN  {Crop(r, o, left, top) : left \in Offsets(r.w, o.w), top \in Offsets(r.h, o.h)}

\* IMAGE_MODE_FIT: the image is scaled to the output's size and copied.
Fit(i, o) ==
    {[size |-> o.w * o.h, first |-> 0, last |-> o.w * o.h - 1, written |-> o.w * o.h]}

\* resize_image_nni(), one axis: the pixels of an image of m that those of n are
\* taken from.
Sources(m, n) ==
    LET ratio == Quotient(m, n)
        Source(x) == LET at == Round(x, ratio) IN IF at < m - 1 THEN at ELSE m - 1
    IN  {Source(x) : x \in 0..(n - 1)}
=============================================================================
