--------------------------- MODULE MCNotifications ---------------------------
EXTENDS Notifications, TLC

\* A delivery with a key after one without, and the same key with other content.
Sent == LET item(k, p) == [key |-> k, print |-> p, to |-> Sponsor] IN
        {<<item(Nobody, "b"), item(k, "a")>> : k \in Key} \cup {<<item(k, "b")>> : k \in Key}

=============================================================================
