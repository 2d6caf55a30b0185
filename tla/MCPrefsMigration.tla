-------------------------- MODULE MCPrefsMigration --------------------------
\* Three legacy ids: one is its own encoding, one is escaped again, and one has
\* no key.
EXTENDS PrefsMigration, TLC

CONSTANTS gmail, escaped

MCIds == {gmail, escaped}

MClegacy_key == 1 :> gmail @@ 2 :> escaped @@ 3 :> None

=============================================================================
