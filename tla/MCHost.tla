------------------------------- MODULE MCHost -------------------------------
(* One state for many components: the guest uses one kind of object, chosen at
   the start, and v1, v2, ... are the variables of that kind, in the order in
   which its module declares them; those it does not need stay 0.            *)

VARIABLES
    kindUsed, v1, v2, v3, v4, v5, v6, v7, v8, v9,
    v10, v11, v12, v13, v14, v15, v16, v17, v18

\* The variables from a position on.
From18 == <<v18>>
From17 == <<v17, From18>>
From16 == <<v16, From17>>
From15 == <<v15, From16>>
From14 == <<v14, From15>>
From13 == <<v13, From14>>
From12 == <<v12, From13>>
From11 == <<v11, From12>>
From10 == <<v10, From11>>
From9  == <<v9, From10>>
From8  == <<v8, From9>>
From7  == <<v7, From8>>
From6  == <<v6, From7>>
From5  == <<v5, From6>>
From4  == <<v4, From5>>
From3  == <<v3, From4>>
From2  == <<v2, From3>>
From1  == <<v1, From2>>

\* They are not needed.
Off18 == v18 = 0
Off17 == v17 = 0 /\ Off18
Off16 == v16 = 0 /\ Off17
Off15 == v15 = 0 /\ Off16
Off14 == v14 = 0 /\ Off15
Off13 == v13 = 0 /\ Off14
Off12 == v12 = 0 /\ Off13
Off11 == v11 = 0 /\ Off12
Off10 == v10 = 0 /\ Off11
Off9  == v9 = 0 /\ Off10
Off8  == v8 = 0 /\ Off9
Off7  == v7 = 0 /\ Off8
Off6  == v6 = 0 /\ Off7
Off5  == v5 = 0 /\ Off6
Off4  == v4 = 0 /\ Off5
Off3  == v3 = 0 /\ Off4
Off2  == v2 = 0 /\ Off3
Off1  == v1 = 0 /\ Off2

every == <<kindUsed, From1>>

-----------------------------------------------------------------------------

\* The command streams a guest gives its job chain.
Op(op)    == [op |-> op]
To(op, i) == [op |-> op, to |-> i]
List(n)   == [op |-> "list", count |-> n]
Programs  == { <<Op("job"), Op("job"), Op("job"), Op("end")>>,
               <<Op("job"), Op("guard"), Op("job")>>,
               <<List(3), Op("nop"), Op("abort")>>,
               <<To("call", 4), To("next", 3), To("next", 3), Op("job"), Op("ret")>>,
               <<To("resetpc", 2), To("call", 2)>>,
               <<Op("ret")>> }

=============================================================================
