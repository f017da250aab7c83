SPECIFICATION UsbFairSpec

CONSTANTS
    NumDisks = 2
    Layouts <- AllLayouts
    ALLOWED_FS = {"vfat", "ext4"}
    MaxUsbPartitions = 2
    Wait = 3
    U16Max = 2
    MaxPlugs = 2


    

PROPERTY WaitReturns
