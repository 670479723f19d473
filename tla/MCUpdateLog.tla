---------------------------- MODULE MCUpdateLog ----------------------------
(* Instances of UpdateLog: the operations on a chat's messages, those that  *)
(* admit to a chat, and 1:1 sends with their resends and forwards.          *)
EXTENDS UpdateLog, TLC

CONSTANTS t1, t2

ChatKinds == {"SendChatMessage", "EditMessage", "DeleteMessages", "AddChatUser", "RemoveChatUser"}
AdmissionKinds == {"AddChatUser", "RemoveChatUser", "BlockUser", "UnblockUser", "SendChatMessage",
                   "ForwardMessages", "SetChatDefaultBannedRights", "SetChatTitle"}
DirectKinds == {"SendMessage", "SendChatMessage", "ForwardMessages", "EditMessage", "DeleteMessages"}
DeleteKinds == {"SendChatMessage", "DeleteMessages"}
ForwardKinds == {"ForwardMessages"}

\* The slots are interchangeable.
SlotSymmetry == Permutations(Slots)
=============================================================================
