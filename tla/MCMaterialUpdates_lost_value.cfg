SPECIFICATION MUSpec
CONSTANTS
    Materials = {crate, glass}
    GlobalMaterials = {crate}
    Names = {albedo}
    Textures = {wood, ice}
    Writers = {loader}
    Render = render
    None = None
    MaxWrites = 3
INVARIANT UploadsCatchUp
