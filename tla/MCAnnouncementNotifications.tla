--------------------- MODULE MCAnnouncementNotifications ---------------------
(* The runs of AnnouncementNotifications.                                  *)
EXTENDS AnnouncementNotifications, TLC

\* The instances run the same code.
InstanceSymmetry == Permutations(Instances)

=============================================================================
