--------------------------- MODULE MCConversation ---------------------------
(* Instances of Conversation for TLC. *)
EXTENDS Conversation, TLC

CONSTANTS e1, e2, e3, alice, bob, lobby, den

TwoEvents == {e1, e2}
ThreeEvents == {e1, e2, e3}
TwoNicks == {alice, bob}
OneNick == {alice}
JustAlice == {alice}
OneChannel == {lobby}
TwoChannels == {lobby, den}

SafetyKinds == {"message", "optin", "optout", "clear", "compact"}
MessageAndOptOut == {"message", "optout"}

\* Events, and channels, are interchangeable in the safety runs.
Symmetry == Permutations(Events) \cup Permutations(Channels)
=============================================================================
