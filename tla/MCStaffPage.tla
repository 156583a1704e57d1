---------------------------- MODULE MCStaffPage ----------------------------
(* The pages of staff for TLC. *)
EXTENDS StaffPage, TLC

Pages == {"AdminRewards", "AdminPolls", "AdminGoals", "AdminAuctions", "AdminDestinations",
          "AdminDonations", "AdminPledges", "AdminFeatureFlags", "AdminBroadcast",
          "AdminBlockedWords", "ModeratorRewards", "ModeratorPolls", "ModeratorGoals",
          "ModeratorAuctions", "ModeratorDonations", "ModeratorClaims", "EventsManager",
          "ChannelsManager"}
Tabs == {"reward", "poll", "option", "goal", "auction", "flag", "other"}
Sym == Permutations(Job) \cup Permutations(Image)
=============================================================================
