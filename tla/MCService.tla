----------------------------- MODULE MCService -----------------------------
EXTENDS Service, TLC

MCLive ==
    {[name |-> "gmail", kind |-> "reads_noun", entry |-> "Read"],
     [name |-> "gmail", kind |-> "plain", entry |-> "Write"],
     [name |-> "zoom", kind |-> "reads_noun", entry |-> None],
     [name |-> "stripe", kind |-> "plain", entry |-> "Admin"]}

\* The live actions of the toolkits of the instance.
MCLiveHere == {a \in MCLive : a.name \in Toolkits}

MCRoutes == {[via |-> "proxy", tenant |-> "ann"], [via |-> "direct", tenant |-> "bob"]}

\* Two usable connections; one that asks for the user twice over beside a
\* usable one.
MCInitialRows ==
    {rs \cap (Toolkits \X Statuses) : rs \in
       {{<<"gmail", "ACTIVE">>, <<"zoom", "ACTIVE">>},
        {<<"gmail", "EXPIRED">>, <<"gmail", "INITIATED">>, <<"zoom", "ACTIVE">>}}}

MCOffers ==
    {[allow |-> {}, deny |-> {}],
     [allow |-> {"gmail", "zoom"}, deny |-> {"zoom"}]}

\* The setup calls are interchangeable.
MCSymmetry == Permutations(Setups)

=============================================================================
