-------------------------------- MODULE MCPod --------------------------------
(* A small pod for TLC: few tasks of every kind, claims and names that are    *)
(* easily taken for each other, and acts of up to four lines.                 *)
EXTENDS Pod

KeysInTurn == SetToSeq(Keys)

\* Three sessions, of which two share the tenant and two the name of the session,
\* and three claims that are none. Without separators, or with a separator in a
\* part, different parts give the same key.
Claim(tenant, session) == [tenant |-> tenant, session |-> session]
AlikeClaims ==
    {Claim(<<"t">>, <<"s">>), Claim(<<"t">>, <<"s", "k">>), Claim(<<"u">>, <<"s">>),
     Claim(<<"t">>, <<"s", ":", "k">>), Claim(<<"t", ":", "s">>, <<"k">>), Claim(<<" ">>, <<"s">>)}
AlikeNames == {<<"k">>, <<"k", "k">>, <<"k", ":", "k">>, <<" ">>}

Line(id, text) == [bar |-> TRUE, id |-> id, text |-> text]
Act == <<Line("1", "a"), [bar |-> FALSE], Line("2", "a"), Line("3", "a")>>
Acts == {Act, <<Line("1", "a"), Line("2", "b"), Line("2", "c"), Line("4", "a")>>, <<>>}

RedisThenFedlex == <<"redis", "fedlex">>
=============================================================================
