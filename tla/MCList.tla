------------------------------- MODULE MCList -------------------------------
(***************************************************************************)
(* Instances of SystemList for TLC: the files to start from.               *)
(***************************************************************************)
EXTENDS ListProperties

Open == {[known |-> TRUE, freq |-> f, lockout |-> FALSE] : f \in 1..3}
Odd == {[known |-> TRUE, freq |-> 2, lockout |-> TRUE],             \* locked out
        [known |-> TRUE, freq |-> MaxInt + 1, lockout |-> FALSE],   \* not an int
        [known |-> FALSE, freq |-> 1, lockout |-> FALSE]}           \* unknown type

SystemsOf(channels) ==
  {[known |-> TRUE, lockout |-> l, channels |-> c] : l \in BOOLEAN, c \in channels}
Unsupported == [known |-> FALSE, lockout |-> FALSE, channels |-> <<>>]

FirstSystems == SystemsOf(SeqOf(Open \cup Odd, 2)) \cup {Unsupported}
SecondSystems == SystemsOf({<<>>} \cup {<<c>> : c \in Open \cup Odd})

\* No file, one system, or two.
SmallFiles == {<<>>} \cup {<<s>> : s \in FirstSystems}
                \cup {<<s, t>> : s \in FirstSystems, t \in SecondSystems}
=============================================================================
