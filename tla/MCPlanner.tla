------------------------------- MODULE MCPlanner -------------------------------
(***************************************************************************)
(* Planner on projects of two oaths, each an outline of two sections.       *)
(***************************************************************************)
EXTENDS Flattening

TwoOaths == {"a", "b"}

\* x under the heading of `s`, then y, then z under one of `t`, beneath it or not.
Shape(x, y, level, z) ==
    <<Heading(1, "s"), x, y, Heading(level, "t"), z>>

\* Two headings of one slug.
Twice(x, y) == <<Heading(1, "s"), x, Heading(1, "s"), y>>

Links == {Link("a", "s"), Link("a", "t"), Link("b", "s"), Link("b", "t"),
          Link("b", WholeFile), Link("gone", "s")}

\* The referencing oath, and the few shapes of the other.
Hosts ==
    {Shape(x, y, 2, z) : x \in {Para("steps")} \cup Links,
                         y \in {Para("steps"), Para("prose"), Break} \cup Links,
                         z \in {Para("steps"), Para("rows")} \cup Links}
    \cup {<<Heading(1, "s"), x, Heading(1, "t"), y, Para("failing")>> :
              x \in {Para("steps"), Link("b", "t")}, y \in Links}
    \cup {<<x, Heading(1, "t"), Para("steps"), Heading(1, "s"), Link("gone", "s"),
            Para("steps")>> : x \in {Para("steps"), Link("b", "t")}}

Libraries ==
    {Shape(x, y, l, z) : x \in {Para("steps"), Link("b", "t"), Link("a", "t")},
                         y \in {Para("prose"), Para("steps"), Para("rows")},
                         l \in {1, 2},
                         z \in {Para("steps"), Para("ambiguous"), Link("b", "s")}}
    \cup {Twice(x, Para("steps")) : x \in {Para("steps"), Link("a", "t")}}

Projects == [p \in TwoOaths |-> IF p = "a" THEN Hosts ELSE Libraries]
================================================================================
