---------------------------- MODULE MCProjection ----------------------------
\* Instances of Projection for TLC.  Skills 2 and 3 are spellings of one id.
EXTENDS Projection

Asks(id, required) == [skill |-> id, required |-> required]

Account == [id |-> "a1", valid |-> TRUE, config |-> "config", auth |-> "auth",
            hasConfig |-> TRUE, hasAuth |-> FALSE]

Pack(id, hard, skills) ==
    [id |-> id, valid |-> TRUE, hard |-> hard, skills |-> skills, files |-> {}, context |-> 1]

Layer(skills) ==
    [skills |-> skills, files |-> {[path |-> "f", inProject |-> TRUE, sensitive |-> FALSE]},
     context |-> 1]

Binding(packs, layer) ==
    [valid |-> TRUE, project |-> "p", account |-> "a1", packs |-> packs, layer |-> layer,
     isolation |-> "shared"]

Skill(id, from) == [id |-> id, source |-> from, digest |-> 1, tokens |-> 1]

Registry == [valid |-> TRUE, revision |-> 1, skills |-> <<Skill(2, "s1")>>]

Bound(binding) ==
    [binding |-> binding, accounts |-> <<Account>>, registry |-> Registry,
     packs |-> <<Pack("sealed", TRUE, <<Asks(3, TRUE)>>)>>]

\* In the first, the layer of the project asks again for what the pack requires.
SomeInputs ==
    <<Bound(Binding(<<"sealed">>, Layer(<<Asks(3, FALSE), Asks(6, FALSE)>>))),
      Bound(Binding(<<>>, Layer(<<Asks(2, TRUE)>>)))>>

SomeDigest(seed) == CHOOSE n \in DOMAIN SomeInputs : SomeInputs[n].binding = seed[1]

Call(op, inputs, mode, force) == [op |-> op, inputs |-> inputs, mode |-> mode, force |-> force]

SomeKinds ==
    {Call("apply", 1, "copy", FALSE), Call("apply", 1, "copy", TRUE),
     Call("apply", 1, "symlink", FALSE), Call("clean", 1, "copy", FALSE),
     Call("apply", 2, "symlink", FALSE)}

UserPlaces == {<<<<"runtime", 1>>, "skills", 2>>}
=============================================================================
