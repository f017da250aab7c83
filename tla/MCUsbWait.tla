------------------------------ MODULE MCUsbWait ------------------------------
EXTENDS UsbWait

L(ids, fs, parts) == [ids |-> ids, fs |-> fs, parts |-> parts]

\* Formatted as a whole, partitioned, partitioned with a file system that may
\* not be mounted, partitioned beyond the limit, another device, no device ids.
AllLayouts ==
    {L("match", "vfat", <<>>),
     L("match", "none", <<"vfat", "ext4">>),
     L("match", "none", <<"ntfs", "vfat">>),
     L("match", "none", <<"vfat", "vfat", "vfat">>),
     L("other", "vfat", <<>>),
     L("missing", "vfat", <<>>)}

WholeDisk == {L("match", "vfat", <<>>)}

TwoPartitions == {L("match", "none", <<"vfat", "ext4">>)}

=============================================================================
