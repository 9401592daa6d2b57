------------------------------ MODULE MCRecall ------------------------------
EXTENDS Recall

Plain == [scope |-> 1, kind |-> 1, status |-> "active", secret |-> FALSE,
          trust |-> "user_confirmed", subject |-> {}, text |-> <<"a">>,
          tags |-> {"a"}, time |-> 1, size |-> 1]

\* 2 says "a" only where its text is past the tokens that become tags, 3 was
\* remembered as deprecated and is alone in its scope, 4 is a secret
\* reference, shares all markers of 1 and does not fit a page with it.
MCAttr == <<
    Plain,
    [Plain EXCEPT !.trust = "agent_inferred", !.subject = {"a"}, !.text = <<"b", "a">>,
                !.tags = {"b"}],
    [Plain EXCEPT !.scope = 2, !.kind = 2, !.status = "deprecated", !.text = <<"b">>,
                !.tags = {"a", "b"}],
    [Plain EXCEPT !.secret = TRUE, !.time = 2, !.size = 2] >>

\* ln((n + 1) / (df + 0.5)) in thousandths.
MCIdf == << <<288>>, <<693, 182>>, <<981, 470, 134>>, <<1204, 693, 357, 105>> >>

\* Policy, capabilities and flags.
Default == <<{}, {}, {}>>
Retiring == <<{}, {"include_deprecated"}, {}>>
Granted == <<{"deprecated", "rejected", "secret"}, {}, {}>>
Flagged == <<{}, {"read_secret_references"}, {"deprecated"}>>

Unfiltered == [scope |-> 0, kind |-> 0, explicit |-> {}]
InScope    == [scope |-> 1, kind |-> 0, explicit |-> {}]
Marked     == [scope |-> 1, kind |-> 0, explicit |-> {"b", "z"}]
AtOnce     == [scope |-> 2, kind |-> 2, explicit |-> {"a"}]

Request(mode, query, policy, f, least) ==
    [mode |-> mode, query |-> query, policy |-> policy[1], capabilities |-> policy[2],
     flags |-> policy[3], scope |-> f.scope, kind |-> f.kind,
     explicit |-> f.explicit, max |-> 2, minScore |-> least]

\* Every mode with the policies that matter in a scope, focused and broad
\* recall with every filter, a text of one word, one request that may find
\* all four cells, more than are fused, and one with a least score.
MCRequests ==
    {Request(m, <<"a", "b">>, a[1], a[2], {}) :
        m \in {"focused", "broad", "full"},
        a \in {<<Default, InScope>>, <<Flagged, InScope>>, <<Retiring, AtOnce>>}}
    \cup {Request("full", <<"a", "b">>, a[1], a[2], {}) :
             a \in {<<Retiring, InScope>>, <<Granted, AtOnce>>}}
    \cup {Request(m, <<"a", "b">>, Default, f, {}) :
             m \in {"focused", "broad"}, f \in {Unfiltered, Marked}}
    \cup {Request("focused", <<"a">>, Default, f, {}) : f \in {InScope, Marked}}
    \cup {Request("broad", <<"a", "b">>, Granted, Unfiltered, {}),
          Request("focused", <<"a">>, Default, Unfiltered, {20})}
=============================================================================
