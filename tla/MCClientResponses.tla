------------------------- MODULE MCClientResponses -------------------------
(***************************************************************************)
(* ClientResponses for TLC: two mailboxes and some commands at a time.     *)
(***************************************************************************)
EXTENDS ClientResponses

CONSTANTS ka, kb

RootOf == [k \in {ka, kb} |-> kb]

SomePlans == {
    \* moving from one mailbox to another
    {Select(1, ka), Select(2, kb), Unselect(3), Expunge(4)},
    \* logging in and out
    {Login(5), Unauthenticate(6), Enable(8), Select(1, ka)},
    {Login(5), Capability(9), Logout(7), Sort(32, "")},
    \* lists and what comes with them
    {List(10, {ka, kb}, "STATUS"), Status(11, ka), Status(12, kb), GetMetadata(13, ka)},
    {List(14, {ka, kb}, "METADATA"), Lsub(15, {ka, kb}), Select(1, ka), List(16, {kb}, "")},
    \* searches, quotas, and commands with one answer
    {Search(17, "ESEARCH"), Search(18, ""), Sort(19, "ESEARCH"), MultiSearch(20)},
    {GetQuota(21, kb), GetQuotaRoot(22, ka), Sort(26, "ESORT"), Thread(27)},
    {MyRights(23, ka), GetACL(28, ka), ListRights(29, kb), MyRights(31, kb)},
    {ID(24), Namespace(25), Select(1, ka), Move(30, kb)}}
=============================================================================
