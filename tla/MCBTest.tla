------------------------------- MODULE MCBTest -------------------------------
(* Every puzzle with the timer; every argument of every puzzle without it. *)
EXTENDS BTest

LoopsDef == {"howManyBits", "floatPower2"}
RandomsDef == {53}

Option(o, v) == [opt |-> o, val |-> v]
Value(k, v) == [opt |-> "arg", arg |-> k, val |-> v,
                fits |-> TRUE, float |-> FALSE]
Few == {TMin, -1, 0, 1, 48, TMax}

Only(name, values) == <<Option("f", name), Option("T", 0)>> \o values
Ints == TMin..TMax
InvocationsDef ==
    {<<>>, <<Option("usage", 0)>>, <<Option("f", "negate"), Value(1, 5), Value(1, 6)>>,
     <<Option("f", "negate"), Value(1, 0), Value(1, 6)>>,
     <<Option("f", "negate"), [Value(1, 5) EXCEPT !.fits = FALSE]>>,
     <<Option("f", "negate"), Value(1, 5), [Value(1, 6) EXCEPT !.float = TRUE]>>}
    \cup {Only(n, <<Value(1, a)>>) : a \in Ints,
            n \in {"isTmax", "allOddBits", "negate", "isAsciiDigit", "logicalNeg"}}
    \cup {Only(n, <<Value(1, a), Value(2, b)>>) : a \in Ints, b \in Ints,
            n \in {"bitXor", "isLessOrEqual"}}
    \cup {Only("conditional", <<Value(1, a), Value(2, b), Value(3, c)>>) :
            a \in Ints, b \in Few, c \in Few}
=============================================================================
