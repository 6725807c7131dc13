----------------------------- MODULE MCAccounts -----------------------------
(***************************************************************************)
(* Small instances of Accounts for TLC.                                    *)
(***************************************************************************)
EXTENDS Accounts, TLC

CONSTANTS isp, mto, ivanov, petrov, hall, telegram, vk, first, second

TwoPlatforms == [u \in Users |-> IF u = 1 THEN telegram ELSE vk]
Types == [k \in {isp, mto, ivanov, petrov, hall} |->
            CASE k \in {ivanov, petrov} -> "teacher" [] k = hall -> "audience" [] OTHER -> "group"]
Alphabet == <<hall, isp, mto, petrov, ivanov>>
Mix(b, e, l, n) == [bot |-> b, edit |-> e, link |-> l, login |-> n]
Mixes == {Mix(3, 0, 0, 0), Mix(1, 2, 0, 0), Mix(0, 0, 5, 1), Mix(1, 1, 2, 0), Mix(1, 0, 3, 0)}
MixesOfBots == {Mix(2, 0, 0, 0)}
FirstRows == {<<isp, isp, ivanov>>, <<isp, ivanov, "new">>}
AlikeTokens == Permutations(Tokens)
MtoBecomesIsp == {<<mto, isp>>}
IvanovBecomesPetrov == {<<ivanov, petrov>>}
=============================================================================
